---- MODULE Spec2Model ----
(***************************************************************************)
(* A model of nbsafety's tracing core:                                     *)
(*   - TraceState (tracing/trace_state.py): the call/line/return/exception *)
(*     state machine,                                                      *)
(*   - AttributeTracingManager (tracing/attribute_tracing.py): the hooks   *)
(*     called by instrumented code and the frame-snapshot stack,           *)
(*   - StatementInserter (tracing/stmt_inserter.py) and                    *)
(*     AttrSubTracingNodeTransformer (tracing/attribute_tracing.py): the   *)
(*     two rewriting passes, as recursive operators over small trees.      *)
(***************************************************************************)
EXTENDS Integers, Sequences, FiniteSets, TLC

(***************************************************************************)
(* Bounds of the model.                                                    *)
(***************************************************************************)
\* deepest call nesting explored (a call event is not offered beyond it)
MaxDepth == 2
\* number of trace events explored (the event counter itself is unbounded)
MaxEvents == 5
\* number of trace events explored together with hook calls
MaxFrameEvents == 4
\* longest buffered store list explored
MaxStores == 1
\* number of hook calls explored
MaxHookCalls == 3
\* largest cell handed to the marker pass, in statements and handlers
MaxStmtNodes == 4
\* largest statement handed to the rewriting pass, in expression nodes
MaxExprNodes == 4
\* number of cells handed to one rewriter
MaxCells == 2
\* nodes of the expressions of a statement handed to the hyperedge extractor
MaxEdgeNodes == 5

(***************************************************************************)
(* The values the environment hands to the program.                        *)
(***************************************************************************)
\* Python's None
None == "None"

\* the four kinds of trace event (nbsafety.tracing.trace_events.TraceEvent)
TraceEvent == {"call", "line", "return", "exception"}

\* The statements of the traced cell (TraceStatement objects), one per kind
\* of stmt_node the state machine distinguishes.
Stmts == {"def_f", "class_K", "ret", "asg"}

\* type(trace_stmt.stmt_node)
StmtNode(s) ==
    CASE s = "def_f" -> "FunctionDef"
      [] s = "class_K" -> "ClassDef"
      [] s = "ret" -> "Return"
      [] OTHER -> "Assign"

\* the objects instrumented code passes to the hooks; id(obj) is the object
Objs == {"a", "b"}

\* id(obj.__class__): "a" is an instance of the traced class K, whose
\* namespace scope is registered; "b" is an instance of an untraced class
ClassId(obj) == IF obj = "a" THEN "K" ELSE "D"

\* attribute names and subscript keys
Keys == {"x"}

\* names of bare-identifier call arguments
ArgNames == {"p"}

\* ast context class names passed as ctx
Ctxs == {"Load", "Store", "AugStore"}

\* What the live lookup obj[key] / getattr(obj, key) does: it yields an
\* object, raises AttributeError, or (a subscript on a missing key or
\* index) raises a LookupError such as KeyError.
LiveOutcomes(is_subscript) ==
    {"b", "AttributeError"} \cup (IF is_subscript THEN {"KeyError"} ELSE {})

\* references to the list and set objects the runtime rebinds on push
Refs == 1 .. (MaxDepth + 1)

VARIABLES
    \* ---- TraceState ----
    cur_frame_scope,
    prev_trace_stmt_in_cur_frame,
    inside_lambda,
    stack,
    prev_trace_stmt,
    prev_event,
    trace_event_counter,
    \* ---- TraceStatement fields, per statement ----
    finished,
    call_point_deps,
    lambda_call_point_deps_done_once,
    class_scope,
    \* ---- AttributeTracingManager ----
    namespaces,
    aliases,
    scopes,
    original_active_scope,
    active_scope,
    loaded_data_cells,
    saved_store_data,
    mutations,
    recorded_args,
    attr_stack,
    mutation_candidate,
    \* the list / set objects saved_store_data, mutations and recorded_args
    \* refer to
    store_objs,
    mutation_objs,
    args_objs,
    \* ---- bookkeeping of the run ----
    \* the exception that ended tracing, or "none"
    fatal,
    \* the last operation, its inputs and its outcome
    last,
    \* events delivered; call and return events processed to completion
    hist,
    \* contents of each frame snapshot, copied when it was pushed
    shadow,
    \* for each frame entered and not yet left, the previous statement of the
    \* calling frame, the lambda flag and the current frame scope as they were
    \* just before its call
    callers,
    \* hook calls made so far
    hook_calls,
    \* the method calls of the running statement whose begin hook has run and
    \* whose end hook has not, innermost last: the target and the names its
    \* own arguments were recorded under
    open_calls,
    \* ---- StatementInserter and the tree it is run on ----
    cell_counter,
    cur_line_id,
    ins_tree,
    \* "idle" (no tree), "parsed" (before the pass) or "marked" (after it)
    ins_phase,
    \* ---- AttrSubTracingNodeTransformer and the tree it is run on ----
    inside_attrsub_load_chain,
    \* the statement as parsed, and the same statement object now
    rw_input,
    rw_tree,
    \* "idle", "parsed", "rewritten" (visit returned) or "failed" (it raised)
    rw_phase,
    \* cells handed to the transformer so far
    cells_done,
    \* GetHyperEdgeNames (analysis/hyperedge.py): the statement handed to
    \* get_hyperedge_lvals_and_rvals, the pair of name sets it returned, and
    \* "idle", "parsed" or "extracted"
    he_stmt,
    he_result,
    he_phase

ts_vars == <<cur_frame_scope, prev_trace_stmt_in_cur_frame, inside_lambda,
             stack, prev_trace_stmt, prev_event, trace_event_counter>>
stmt_vars == <<finished, call_point_deps, lambda_call_point_deps_done_once,
               class_scope>>
registry_vars == <<namespaces, aliases, scopes>>
frame_vars == <<original_active_scope, active_scope, saved_store_data,
                mutations, recorded_args, mutation_candidate, store_objs,
                mutation_objs, args_objs>>
attr_vars == <<registry_vars, frame_vars, loaded_data_cells, attr_stack>>
run_vars == <<fatal, last, hist, shadow, callers, hook_calls, open_calls>>
inserter_vars == <<cell_counter, cur_line_id, ins_tree, ins_phase>>
rewriter_vars == <<inside_attrsub_load_chain, rw_input, rw_tree, rw_phase,
                   cells_done>>
extractor_vars == <<he_stmt, he_result, he_phase>>
vars == <<ts_vars, stmt_vars, attr_vars, run_vars, inserter_vars,
          rewriter_vars, extractor_vars>>

(***************************************************************************)
(* Helpers for Python values.                                              *)
(***************************************************************************)
\* dict.get(key, None)
DictGet(d, k) == IF k \in DOMAIN d THEN d[k] ELSE None

\* d[k] = v on a dict
DictSet(d, k, v) == [x \in DOMAIN d \cup {k} |-> IF x = k THEN v ELSE d[x]]

\* d[k] on a defaultdict(set): a missing key is created with an empty set
DefaultDictTouch(d, k) == IF k \in DOMAIN d THEN d ELSE DictSet(d, k, {})

\* the absent mutation candidate (None) and a recorded one
NoCandidate == [counter |-> -1, obj_id |-> None]
Candidate(c, o) == [counter |-> c, obj_id |-> o]

\* the None that ends up where a DataCell is expected
NoneCell == [name |-> None, obj |-> None, scope |-> None, is_subscript |-> FALSE]

\* every ordering of a finite set: what tuple(set) can produce
RECURSIVE Orderings(_)
Orderings(S) ==
    IF S = {} THEN {<<>>}
    ELSE UNION {{<<x>> \o t : t \in Orderings(S \ {x})} : x \in S}

\* The record kept in last: the operation, the event and statement (an
\* event), the previous event before it, the object passed (a hook), the
\* exception raised, the value returned, and what the step consumed: the
\* outcome of the live lookup (begin), the candidate found (end), the frame
\* state left behind (a return event).
Op(op, ev, stmt, pe, obj, exc, ret, info) ==
    [op |-> op, ev |-> ev, stmt |-> stmt, pe |-> pe, obj |-> obj, exc |-> exc,
     ret |-> ret, info |-> info]

\* the smallest reference no snapshot on the stack holds
FreshRef(used) == CHOOSE r \in Refs : r \notin used /\ \A q \in Refs \ used : r <= q

\* drop the objects nothing refers to any more
Collect(objs, live_refs, empty) ==
    [r \in Refs |-> IF r \in live_refs THEN objs[r] ELSE empty]

StoreRefs(stk) == {stk[i].saved_store_data : i \in 1 .. Len(stk)}
MutationRefs(stk) == {stk[i].mutations : i \in 1 .. Len(stk)}
ArgsRefs(stk) == {stk[i].recorded_args : i \in 1 .. Len(stk)}

\* the contents of the runtime's current frame state
FrameContents ==
    [saved_store_data |-> store_objs[saved_store_data],
     mutations |-> mutation_objs[mutations],
     mutation_candidate |-> mutation_candidate,
     recorded_args |-> args_objs[recorded_args],
     active_scope |-> active_scope,
     original_active_scope |-> original_active_scope]

(***************************************************************************)
(* Collaborators outside the traced files: TraceStatement and the scopes.  *)
(***************************************************************************)
\* TraceStatement.get_post_call_scope: the function's scope, the class
\* body's scope, or (a lambda) the enclosing scope
GetPostCallScope(trace_stmt, scope) ==
    CASE StmtNode(trace_stmt) = "FunctionDef" -> "fn_f"
      [] StmtNode(trace_stmt) = "ClassDef" -> "body_K"
      [] OTHER -> scope

\* TraceStatement.finished_execution_hook, as far as the state machine
\* reads it back: the statement is finished
FinishedExecutionHook(fin, stmt) ==
    IF stmt = None THEN fin ELSE [fin EXCEPT ![stmt] = TRUE]

\* TraceStatement.compute_rval_dependencies: the dependency set of the
\* statement, named after it
ComputeRvalDependencies(trace_stmt) == trace_stmt

\* Scope.lookup_data_cell_by_name_this_indentation(name) is not None
HasDataCell(scope_obj, name) == name \in DOMAIN scope_obj.cells

\* NamespaceScope(obj_id, scope_name, parent_scope=...)
NamespaceScope(scope_name, parent_scope) ==
    [name |-> scope_name, parent |-> parent_scope, cells |-> << >>]

\* NamespaceScope.clone(obj_id): the class's scope, copied for the instance
CloneScope(cls_scope) == scopes[cls_scope]

\* the reference of the namespace scope made for obj_id
ScopeRef(obj_id) == "ns_" \o obj_id

(***************************************************************************)
(* AttributeTracingManager.                                                *)
(***************************************************************************)
\* the fields push_stack and pop_stack assign, as one record
SetFrame(f) ==
    /\ attr_stack' = f.attr_stack
    /\ saved_store_data' = f.saved_store_data
    /\ mutations' = f.mutations
    /\ mutation_candidate' = f.mutation_candidate
    /\ recorded_args' = f.recorded_args
    /\ active_scope' = f.active_scope
    /\ original_active_scope' = f.original_active_scope
    /\ store_objs' = f.store_objs
    /\ mutation_objs' = f.mutation_objs
    /\ args_objs' = f.args_objs

\* push_stack with the store list emptied in place (clear()) instead of
\* rebound to a new list
PushStackClearsInPlace(new_scope) ==
    LET stk == Append(attr_stack,
                      [saved_store_data |-> saved_store_data,
                       mutations |-> mutations,
                       mutation_candidate |-> mutation_candidate,
                       recorded_args |-> recorded_args,
                       active_scope |-> active_scope,
                       original_active_scope |-> original_active_scope])
        m == FreshRef(MutationRefs(stk))
        a == FreshRef(ArgsRefs(stk))
    IN  [attr_stack |-> stk,
         saved_store_data |-> saved_store_data,
         mutations |-> m,
         mutation_candidate |-> mutation_candidate,
         recorded_args |-> a,
         active_scope |-> new_scope,
         original_active_scope |-> new_scope,
         store_objs |-> [store_objs EXCEPT ![saved_store_data] = << >>],
         mutation_objs |-> [mutation_objs EXCEPT ![m] = {}],
         args_objs |-> [args_objs EXCEPT ![a] = {}]]

\* push_stack(new_scope): the six fields are saved by reference, then the
\* three containers are rebound to new empty objects
PushStack(new_scope) ==
    LET stk == Append(attr_stack,
                      [saved_store_data |-> saved_store_data,
                       mutations |-> mutations,
                       mutation_candidate |-> mutation_candidate,
                       recorded_args |-> recorded_args,
                       active_scope |-> active_scope,
                       original_active_scope |-> original_active_scope])
        s == FreshRef(StoreRefs(stk))
        m == FreshRef(MutationRefs(stk))
        a == FreshRef(ArgsRefs(stk))
    IN  [attr_stack |-> stk,
         saved_store_data |-> s,
         mutations |-> m,
         mutation_candidate |-> mutation_candidate,
         recorded_args |-> a,
         active_scope |-> new_scope,
         original_active_scope |-> new_scope,
         store_objs |-> [store_objs EXCEPT ![s] = << >>],
         mutation_objs |-> [mutation_objs EXCEPT ![m] = {}],
         args_objs |-> [args_objs EXCEPT ![a] = {}]]

\* pop_stack reading the top snapshot without removing it (stack[-1])
PopStackKeepsSnapshot ==
    LET top == attr_stack[Len(attr_stack)]
    IN  [attr_stack |-> attr_stack,
         saved_store_data |-> top.saved_store_data,
         mutations |-> top.mutations,
         mutation_candidate |-> top.mutation_candidate,
         recorded_args |-> top.recorded_args,
         active_scope |-> top.active_scope,
         original_active_scope |-> top.original_active_scope,
         store_objs |-> store_objs,
         mutation_objs |-> mutation_objs,
         args_objs |-> args_objs]

\* pop_stack() on a non-empty stack: the six fields are rebound to what the
\* top snapshot refers to
PopStack ==
    LET top == attr_stack[Len(attr_stack)]
        stk == SubSeq(attr_stack, 1, Len(attr_stack) - 1)
    IN  [attr_stack |-> stk,
         saved_store_data |-> top.saved_store_data,
         mutations |-> top.mutations,
         mutation_candidate |-> top.mutation_candidate,
         recorded_args |-> top.recorded_args,
         active_scope |-> top.active_scope,
         original_active_scope |-> top.original_active_scope,
         store_objs |-> Collect(store_objs,
                                StoreRefs(stk) \cup {top.saved_store_data}, << >>),
         mutation_objs |-> Collect(mutation_objs,
                                   MutationRefs(stk) \cup {top.mutations}, {}),
         args_objs |-> Collect(args_objs,
                               ArgsRefs(stk) \cup {top.recorded_args}, {})]

\* attrsub_tracer, lines 88-104: the namespace scope of obj, registered on
\* first sight.  scope_name is the name next(iter(aliases[obj_id])) yields.
ResolveScope(obj, is_subscript, scope_name) ==
    LET obj_id == obj
        scope == DictGet(namespaces, obj_id)
        cls_scope == DictGet(namespaces, ClassId(obj))
        ref == ScopeRef(obj_id)
    IN  IF scope # None
        THEN [scope |-> scope, namespaces |-> namespaces, scopes |-> scopes,
              aliases |-> aliases]
        ELSE IF cls_scope # None /\ ~is_subscript
        THEN [scope |-> ref,
              namespaces |-> DictSet(namespaces, obj_id, ref),
              scopes |-> DictSet(scopes, ref, CloneScope(cls_scope)),
              aliases |-> aliases]
        ELSE [scope |-> ref,
              namespaces |-> DictSet(namespaces, obj_id, ref),
              scopes |-> DictSet(scopes, ref,
                                 NamespaceScope(scope_name, active_scope)),
              aliases |-> DefaultDictTouch(aliases, obj_id)]

\* the names the alias index can give a new scope for obj
ScopeNames(obj, is_subscript) ==
    IF obj = None \/ DictGet(namespaces, obj) # None
       \/ (DictGet(namespaces, ClassId(obj)) # None /\ ~is_subscript)
    THEN {None}
    ELSE IF obj \notin DOMAIN aliases \/ aliases[obj] = {}
    THEN {"<unknown namespace>"}
    ELSE {c.name : c \in aliases[obj]}

\* whether attrsub_tracer reaches the live lookup of lines 121-125
DoesLiveLookup(obj, key, is_subscript, ctx, call_context) ==
    /\ obj # None
    /\ ctx = "Load"
    /\ ~call_context
    /\ LET r == ResolveScope(obj, is_subscript, None)
       IN  ~HasDataCell(r.scopes[r.scope], key)

\* attrsub_tracer(obj, attr_or_subscript, is_subscript, ctx, call_context,
\* override_active_scope); live is what the live lookup does when reached
AttrsubTracer(obj, attr_or_subscript, is_subscript, ctx, call_context, override_active_scope, scope_name, live) ==
    IF obj = None
    THEN /\ last' = Op("begin", None, None, None, None, "none", None, None)
         /\ UNCHANGED <<registry_vars, frame_vars, loaded_data_cells, attr_stack>>
    ELSE
    LET r == ResolveScope(obj, is_subscript, scope_name)
        scope == r.scope
        has_cell == HasDataCell(r.scopes[scope], attr_or_subscript)
        new_cell == [name |-> attr_or_subscript, obj |-> live, scope |-> scope,
                     is_subscript |-> is_subscript]
        looks_up == ctx = "Load" /\ ~call_context /\ ~has_cell
        found == looks_up /\ live \in Objs
        raises == looks_up /\ live = "KeyError"
    IN  /\ namespaces' = r.namespaces
        /\ active_scope' = IF override_active_scope THEN scope ELSE active_scope
        /\ mutation_candidate' =
              IF ctx = "Load"
              THEN IF call_context
                   THEN Candidate(trace_event_counter, obj)
                   ELSE NoCandidate
              ELSE mutation_candidate
        /\ scopes' =
              IF found
              THEN [r.scopes EXCEPT ![scope].cells =
                        DictSet(@, attr_or_subscript, new_cell)]
              ELSE r.scopes
        /\ aliases' =
              IF found
              THEN LET al == DefaultDictTouch(r.aliases, live)
                   IN  [al EXCEPT ![live] = @ \cup {new_cell}]
              ELSE r.aliases
        /\ loaded_data_cells' =
              IF ctx = "Load" /\ ~call_context /\ ~raises
              THEN loaded_data_cells \cup
                     {IF has_cell THEN r.scopes[scope].cells[attr_or_subscript]
                      ELSE IF found THEN new_cell ELSE NoneCell}
              ELSE loaded_data_cells
        /\ store_objs' =
              IF ctx \in {"Store", "AugStore"}
              THEN [store_objs EXCEPT ![saved_store_data] =
                        Append(@, <<scope, obj, attr_or_subscript, is_subscript>>)]
              ELSE store_objs
        /\ last' = Op("begin", None, None, None, obj,
                      IF raises THEN "KeyError" ELSE "none",
                      IF raises THEN None ELSE obj,
                      IF looks_up THEN live ELSE None)
        /\ UNCHANGED <<original_active_scope, saved_store_data, mutations,
                       recorded_args, mutation_objs, args_objs, attr_stack>>

\* expr_tracer without the comparison of the event counter
ExprTracerIgnoresCounter(obj, args) ==
    /\ mutation_candidate' = NoCandidate
    /\ mutation_objs' =
          IF mutation_candidate # NoCandidate /\ obj = None
          THEN [mutation_objs EXCEPT ![mutations] =
                    @ \cup {<<mutation_candidate.obj_id, args>>}]
          ELSE mutation_objs
    /\ active_scope' = original_active_scope
    /\ LET a == FreshRef(ArgsRefs(attr_stack))
       IN  /\ recorded_args' = a
           /\ args_objs' = Collect([args_objs EXCEPT ![a] = {}],
                                   ArgsRefs(attr_stack) \cup {a}, {})
    /\ last' = Op("end", None, None, None, obj, "none", obj, mutation_candidate)
    /\ UNCHANGED <<registry_vars, original_active_scope, saved_store_data,
                   mutations, store_objs, loaded_data_cells, attr_stack>>

\* expr_tracer(obj); args is the tuple tuple(self.recorded_args) yields
ExprTracer(obj, args) ==
    /\ mutation_candidate' = NoCandidate
    /\ mutation_objs' =
          IF /\ mutation_candidate # NoCandidate
             /\ mutation_candidate.counter = trace_event_counter
             /\ obj = None
          THEN [mutation_objs EXCEPT ![mutations] =
                    @ \cup {<<mutation_candidate.obj_id, args>>}]
          ELSE mutation_objs
    /\ active_scope' = original_active_scope
    /\ LET a == FreshRef(ArgsRefs(attr_stack))
       IN  /\ recorded_args' = a
           /\ args_objs' = Collect([args_objs EXCEPT ![a] = {}],
                                   ArgsRefs(attr_stack) \cup {a}, {})
    /\ last' = Op("end", None, None, None, obj, "none", obj, mutation_candidate)
    /\ UNCHANGED <<registry_vars, original_active_scope, saved_store_data,
                   mutations, store_objs, loaded_data_cells, attr_stack>>

\* arg_recorder(obj, name)
ArgRecorder(obj, name) ==
    /\ args_objs' = [args_objs EXCEPT ![recorded_args] = @ \cup {name}]
    /\ last' = Op("arg", None, None, None, obj, "none", obj, None)
    /\ UNCHANGED <<registry_vars, original_active_scope, active_scope,
                   saved_store_data, mutations, recorded_args,
                   mutation_candidate, store_objs, mutation_objs,
                   loaded_data_cells, attr_stack>>

\* reset() that also forgets the namespace scopes registered so far
ResetForgetsNamespaces ==
    /\ loaded_data_cells' = {}
    /\ LET s == FreshRef(StoreRefs(attr_stack))
       IN  /\ saved_store_data' = s
           /\ store_objs' = Collect([store_objs EXCEPT ![s] = << >>],
                                    StoreRefs(attr_stack) \cup {s}, << >>)
    /\ LET m == FreshRef(MutationRefs(attr_stack))
       IN  /\ mutations' = m
           /\ mutation_objs' = Collect([mutation_objs EXCEPT ![m] = {}],
                                       MutationRefs(attr_stack) \cup {m}, {})
    /\ mutation_candidate' = NoCandidate
    /\ active_scope' = original_active_scope
    /\ namespaces' = << >>
    /\ last' = Op("reset", None, None, None, None, "none", None, None)
    /\ UNCHANGED <<aliases, scopes, original_active_scope, recorded_args,
                   args_objs, attr_stack>>

\* reset()
Reset ==
    /\ loaded_data_cells' = {}
    /\ LET s == FreshRef(StoreRefs(attr_stack))
       IN  /\ saved_store_data' = s
           /\ store_objs' = Collect([store_objs EXCEPT ![s] = << >>],
                                    StoreRefs(attr_stack) \cup {s}, << >>)
    /\ LET m == FreshRef(MutationRefs(attr_stack))
       IN  /\ mutations' = m
           /\ mutation_objs' = Collect([mutation_objs EXCEPT ![m] = {}],
                                       MutationRefs(attr_stack) \cup {m}, {})
    /\ mutation_candidate' = NoCandidate
    /\ active_scope' = original_active_scope
    /\ last' = Op("reset", None, None, None, None, "none", None, None)
    /\ UNCHANGED <<registry_vars, original_active_scope, recorded_args,
                   args_objs, attr_stack>>

(***************************************************************************)
(* TraceState.                                                             *)
(***************************************************************************)
\* the finished check without the comparison of line 64: a statement that
\* is no class header is finished by a line event on that same statement too
CheckPrevStmtFinishesSameStatement(event, trace_stmt) ==
    IF event \notin {"line", "return"} \/ prev_event \in {"call", "exception"}
    THEN [exc |-> "none", stmt |-> None]
    ELSE IF event = "return"
    THEN IF prev_trace_stmt = None
         THEN [exc |-> "none", stmt |-> None]
         ELSE IF stack = << >>
         THEN [exc |-> "IndexError", stmt |-> None]
         ELSE IF prev_trace_stmt # stack[Len(stack)][1]
         THEN [exc |-> "none", stmt |-> prev_trace_stmt]
         ELSE [exc |-> "none", stmt |-> None]
    ELSE LET prev_this_frame == prev_trace_stmt_in_cur_frame
         IN  IF prev_this_frame = None
             THEN [exc |-> "none", stmt |-> None]
             ELSE IF finished[prev_this_frame]
             THEN [exc |-> "none", stmt |-> None]
             ELSE IF StmtNode(prev_this_frame) = "ClassDef"
             THEN IF /\ prev_event = "return"
                     /\ (event = "line" \/ prev_this_frame # trace_stmt)
                  THEN [exc |-> "none", stmt |-> prev_this_frame]
                  ELSE [exc |-> "none", stmt |-> None]
             ELSE [exc |-> "none", stmt |-> prev_this_frame]

\* _check_prev_stmt_done_executing_hook(event, trace_stmt): the statement
\* whose finished_execution_hook it calls (None: none), or the exception
\* self.stack[-1] raises on an empty stack
CheckPrevStmtDoneExecutingHook(event, trace_stmt) ==
    IF event \notin {"line", "return"} \/ prev_event \in {"call", "exception"}
    THEN [exc |-> "none", stmt |-> None]
    ELSE IF event = "return"
    THEN IF prev_trace_stmt = None
         THEN [exc |-> "none", stmt |-> None]
         ELSE IF stack = << >>
         THEN [exc |-> "IndexError", stmt |-> None]
         ELSE IF prev_trace_stmt # stack[Len(stack)][1]
         THEN [exc |-> "none", stmt |-> prev_trace_stmt]
         ELSE [exc |-> "none", stmt |-> None]
    ELSE LET prev_this_frame == prev_trace_stmt_in_cur_frame
         IN  IF prev_this_frame = None
             THEN [exc |-> "none", stmt |-> None]
             ELSE IF finished[prev_this_frame]
             THEN [exc |-> "none", stmt |-> None]
             ELSE IF StmtNode(prev_this_frame) = "ClassDef"
             THEN IF /\ prev_event = "return"
                     /\ (event = "line" \/ prev_this_frame # trace_stmt)
                  THEN [exc |-> "none", stmt |-> prev_this_frame]
                  ELSE [exc |-> "none", stmt |-> None]
             ELSE IF prev_this_frame # trace_stmt
             THEN [exc |-> "none", stmt |-> prev_this_frame]
             ELSE [exc |-> "none", stmt |-> None]

\* the call transition with lines 71 and 72 swapped: the flag of the
\* entered frame is pushed, not the flag of the calling frame
HandleCallTransitionPushesNewFlag(trace_stmt) ==
    LET new_scope == GetPostCallScope(trace_stmt, cur_frame_scope)
    IN  /\ inside_lambda' =
              (StmtNode(trace_stmt) \notin
                   {"FunctionDef", "AsyncFunctionDef", "ClassDef"})
        /\ stack' = Append(stack, <<prev_trace_stmt_in_cur_frame, inside_lambda'>>)
        /\ cur_frame_scope' = new_scope
        /\ prev_trace_stmt_in_cur_frame' = None
        /\ SetFrame(PushStack(new_scope))
        /\ fatal' = "none"
        /\ UNCHANGED <<call_point_deps, lambda_call_point_deps_done_once,
                       class_scope>>

\* _handle_call_transition(trace_stmt)
HandleCallTransition(trace_stmt) ==
    LET new_scope == GetPostCallScope(trace_stmt, cur_frame_scope)
    IN  /\ stack' = Append(stack, <<prev_trace_stmt_in_cur_frame, inside_lambda>>)
        /\ inside_lambda' =
              (StmtNode(trace_stmt) \notin
                   {"FunctionDef", "AsyncFunctionDef", "ClassDef"})
        /\ cur_frame_scope' = new_scope
        /\ prev_trace_stmt_in_cur_frame' = None
        /\ SetFrame(PushStack(new_scope))
        /\ fatal' = "none"
        /\ UNCHANGED <<call_point_deps, lambda_call_point_deps_done_once,
                       class_scope>>

\* the attribution without the one-shot flag
ReturnAttributionEveryTime(trace_stmt, return_to_stmt) ==
    IF prev_event = "exception"
    THEN UNCHANGED <<call_point_deps, lambda_call_point_deps_done_once,
                     class_scope>>
    ELSE IF StmtNode(return_to_stmt) = "ClassDef"
    THEN /\ class_scope' = [class_scope EXCEPT ![return_to_stmt] = cur_frame_scope]
         /\ UNCHANGED <<call_point_deps, lambda_call_point_deps_done_once>>
    ELSE IF StmtNode(trace_stmt) = "Return" \/ inside_lambda
    THEN /\ lambda_call_point_deps_done_once' =
               [lambda_call_point_deps_done_once EXCEPT ![trace_stmt] = TRUE]
         /\ call_point_deps' =
               [call_point_deps EXCEPT ![return_to_stmt] =
                    Append(@, ComputeRvalDependencies(trace_stmt))]
         /\ UNCHANGED class_scope
    ELSE UNCHANGED <<call_point_deps, lambda_call_point_deps_done_once,
                     class_scope>>

\* the attribution without the test of the previous event
ReturnAttributionAfterException(trace_stmt, return_to_stmt) ==
    IF StmtNode(return_to_stmt) = "ClassDef"
    THEN /\ class_scope' = [class_scope EXCEPT ![return_to_stmt] = cur_frame_scope]
         /\ UNCHANGED <<call_point_deps, lambda_call_point_deps_done_once>>
    ELSE IF /\ (StmtNode(trace_stmt) = "Return" \/ inside_lambda)
            /\ ~lambda_call_point_deps_done_once[trace_stmt]
    THEN /\ lambda_call_point_deps_done_once' =
               [lambda_call_point_deps_done_once EXCEPT ![trace_stmt] = TRUE]
         /\ call_point_deps' =
               [call_point_deps EXCEPT ![return_to_stmt] =
                    Append(@, ComputeRvalDependencies(trace_stmt))]
         /\ UNCHANGED class_scope
    ELSE UNCHANGED <<call_point_deps, lambda_call_point_deps_done_once,
                     class_scope>>

\* _handle_return_transition, lines 82-90: what the return attributes to
\* return_to_stmt
ReturnAttribution(trace_stmt, return_to_stmt) ==
    IF prev_event = "exception"
    THEN UNCHANGED <<call_point_deps, lambda_call_point_deps_done_once,
                     class_scope>>
    ELSE IF StmtNode(return_to_stmt) = "ClassDef"
    THEN /\ class_scope' = [class_scope EXCEPT ![return_to_stmt] = cur_frame_scope]
         /\ UNCHANGED <<call_point_deps, lambda_call_point_deps_done_once>>
    ELSE IF /\ (StmtNode(trace_stmt) = "Return" \/ inside_lambda)
            /\ ~lambda_call_point_deps_done_once[trace_stmt]
    THEN /\ lambda_call_point_deps_done_once' =
               [lambda_call_point_deps_done_once EXCEPT ![trace_stmt] = TRUE]
         /\ call_point_deps' =
               [call_point_deps EXCEPT ![return_to_stmt] =
                    Append(@, ComputeRvalDependencies(trace_stmt))]
         /\ UNCHANGED class_scope
    ELSE UNCHANGED <<call_point_deps, lambda_call_point_deps_done_once,
                     class_scope>>

\* a return transition that ignores a return on an empty stack
HandleReturnTransitionLenient(trace_stmt) ==
    IF stack = << >>
    THEN /\ fatal' = "none"
         /\ UNCHANGED <<stack, inside_lambda, cur_frame_scope,
                        prev_trace_stmt_in_cur_frame, call_point_deps,
                        lambda_call_point_deps_done_once, class_scope,
                        frame_vars, attr_stack>>
    ELSE
    LET return_to_stmt == stack[Len(stack)][1]
        return_to_inside_lambda == stack[Len(stack)][2]
    IN  /\ stack' = SubSeq(stack, 1, Len(stack) - 1)
        /\ IF return_to_stmt = None
           THEN /\ fatal' = "AssertionError"
                /\ UNCHANGED <<inside_lambda, cur_frame_scope,
                               prev_trace_stmt_in_cur_frame, call_point_deps,
                               lambda_call_point_deps_done_once, class_scope,
                               frame_vars, attr_stack>>
           ELSE /\ ReturnAttribution(trace_stmt, return_to_stmt)
                /\ inside_lambda' = return_to_inside_lambda
                /\ prev_trace_stmt_in_cur_frame' = return_to_stmt
                /\ IF attr_stack = << >>
                   THEN /\ fatal' = "IndexError"
                        /\ UNCHANGED <<cur_frame_scope, frame_vars, attr_stack>>
                   ELSE /\ SetFrame(PopStack)
                        /\ cur_frame_scope' = active_scope'
                        /\ fatal' = "none"

\* _handle_return_transition(trace_stmt).  self.stack.pop() raises
\* IndexError on an empty stack; the assertion fails after that pop and
\* before anything else is done; pop_stack() raises IndexError on an empty
\* snapshot stack, after the state machine's own fields are set.
HandleReturnTransition(trace_stmt) ==
    IF stack = << >>
    THEN /\ fatal' = "IndexError"
         /\ UNCHANGED <<stack, inside_lambda, cur_frame_scope,
                        prev_trace_stmt_in_cur_frame, call_point_deps,
                        lambda_call_point_deps_done_once, class_scope,
                        frame_vars, attr_stack>>
    ELSE
    LET return_to_stmt == stack[Len(stack)][1]
        return_to_inside_lambda == stack[Len(stack)][2]
    IN  /\ stack' = SubSeq(stack, 1, Len(stack) - 1)
        /\ IF return_to_stmt = None
           THEN /\ fatal' = "AssertionError"
                /\ UNCHANGED <<inside_lambda, cur_frame_scope,
                               prev_trace_stmt_in_cur_frame, call_point_deps,
                               lambda_call_point_deps_done_once, class_scope,
                               frame_vars, attr_stack>>
           ELSE /\ ReturnAttribution(trace_stmt, return_to_stmt)
                /\ inside_lambda' = return_to_inside_lambda
                /\ prev_trace_stmt_in_cur_frame' = return_to_stmt
                /\ IF attr_stack = << >>
                   THEN /\ fatal' = "IndexError"
                        /\ UNCHANGED <<cur_frame_scope, frame_vars, attr_stack>>
                   ELSE /\ SetFrame(PopStack)
                        /\ cur_frame_scope' = active_scope'
                        /\ fatal' = "none"

\* the line transition of state_transition_hook (lines 109-110)
HandleLineTransition(trace_stmt) ==
    /\ prev_trace_stmt_in_cur_frame' = trace_stmt
    /\ fatal' = "none"
    /\ UNCHANGED <<stack, inside_lambda, cur_frame_scope, call_point_deps,
                   lambda_call_point_deps_done_once, class_scope, frame_vars,
                   attr_stack>>

\* an exception event: only the bookkeeping common to all events
HandleExceptionTransition ==
    /\ fatal' = "none"
    /\ UNCHANGED <<stack, inside_lambda, cur_frame_scope,
                   prev_trace_stmt_in_cur_frame, call_point_deps,
                   lambda_call_point_deps_done_once, class_scope, frame_vars,
                   attr_stack>>

\* state_transition_hook(event, trace_stmt).  An exception raised on the
\* way leaves what was assigned before it and ends tracing.
StateTransitionHook(event, trace_stmt) ==
    /\ trace_event_counter' = trace_event_counter + 1
    /\ LET chk == CheckPrevStmtDoneExecutingHook(event, trace_stmt)
       IN  IF chk.exc # "none"
           THEN /\ fatal' = chk.exc
                /\ UNCHANGED <<cur_frame_scope, prev_trace_stmt_in_cur_frame,
                               inside_lambda, stack, prev_trace_stmt,
                               stmt_vars, frame_vars, attr_stack>>
           ELSE /\ finished' = FinishedExecutionHook(finished, chk.stmt)
                /\ prev_trace_stmt' = trace_stmt
                /\ CASE event = "line" -> HandleLineTransition(trace_stmt)
                     [] event = "call" -> HandleCallTransition(trace_stmt)
                     [] event = "return" -> HandleReturnTransition(trace_stmt)
                     [] OTHER -> HandleExceptionTransition
    /\ prev_event' = IF fatal' = "none" THEN event ELSE prev_event
    /\ last' = Op("event", event, trace_stmt, prev_event, None, fatal', None,
                  IF event = "return"
                  THEN [dropped |-> FrameContents,
                        appended |-> call_point_deps' # call_point_deps]
                  ELSE None)
    /\ hist' = [events |-> hist.events + 1,
                calls |-> IF fatal' = "none" /\ event = "call"
                          THEN hist.calls + 1 ELSE hist.calls,
                returns |-> IF fatal' = "none" /\ event = "return"
                            THEN hist.returns + 1 ELSE hist.returns]
    /\ shadow' = IF Len(attr_stack') > Len(attr_stack)
                 THEN Append(shadow, FrameContents)
                 ELSE IF Len(attr_stack') < Len(attr_stack)
                 THEN SubSeq(shadow, 1, Len(shadow) - 1)
                 ELSE shadow
    /\ callers' = IF event = "call" /\ fatal' = "none"
                  THEN Append(callers,
                              [stmt |-> prev_trace_stmt_in_cur_frame,
                               inside_lambda |-> inside_lambda,
                               scope |-> cur_frame_scope])
                  ELSE IF event = "return" /\ callers # << >>
                  THEN SubSeq(callers, 1, Len(callers) - 1)
                  ELSE callers
    /\ UNCHANGED <<registry_vars, loaded_data_cells, hook_calls, open_calls>>

(***************************************************************************)
(* The system: the tracer feeds events, instrumented code calls the hooks. *)
(***************************************************************************)
\* TraceState.__init__ and AttributeTracingManager.__init__ (which makes the
\* transformer: AttrSubTracingNodeTransformer.__init__); no cell has been
\* parsed
Init ==
    /\ cur_frame_scope = "global"
    /\ prev_trace_stmt_in_cur_frame = None
    /\ inside_lambda = FALSE
    /\ stack = << >>
    /\ prev_trace_stmt = None
    /\ prev_event = None
    /\ trace_event_counter = 0
    /\ finished = [s \in Stmts |-> FALSE]
    /\ call_point_deps = [s \in Stmts |-> << >>]
    /\ lambda_call_point_deps_done_once = [s \in Stmts |-> FALSE]
    /\ class_scope = [s \in Stmts |-> None]
    /\ namespaces = [k \in {"K"} |-> "ns_K"]
    /\ aliases = << >>
    /\ scopes = [k \in {"ns_K"} |-> NamespaceScope("K", "global")]
    /\ original_active_scope = "global"
    /\ active_scope = "global"
    /\ loaded_data_cells = {}
    /\ saved_store_data = 1
    /\ mutations = 1
    /\ recorded_args = 1
    /\ attr_stack = << >>
    /\ mutation_candidate = NoCandidate
    /\ store_objs = [r \in Refs |-> << >>]
    /\ mutation_objs = [r \in Refs |-> {}]
    /\ args_objs = [r \in Refs |-> {}]
    /\ fatal = "none"
    /\ last = Op("init", None, None, None, None, "none", None, None)
    /\ hist = [events |-> 0, calls |-> 0, returns |-> 0]
    /\ shadow = << >>
    /\ callers = << >>
    /\ hook_calls = 0
    /\ open_calls = << >>
    /\ cell_counter = 0
    /\ cur_line_id = 0
    /\ ins_tree = None
    /\ ins_phase = "idle"
    /\ inside_attrsub_load_chain = FALSE
    /\ rw_input = None
    /\ rw_tree = None
    /\ rw_phase = "idle"
    /\ cells_done = 0
    /\ he_stmt = None
    /\ he_result = [lvals |-> {}, rvals |-> {}]
    /\ he_phase = "idle"

\* the tracer delivers an event about one of stmts
EventOn(events, stmts, max_events) ==
    /\ fatal = "none"
    /\ trace_event_counter < max_events
    /\ \E event \in events, trace_stmt \in stmts :
          /\ event = "call" => Len(stack) < MaxDepth
          /\ StateTransitionHook(event, trace_stmt)
    /\ UNCHANGED <<inserter_vars, rewriter_vars, extractor_vars>>

\* a hook call leaves the state machine alone
HookCallUpTo(max_hook_calls) ==
    /\ fatal = "none"
    /\ hook_calls < max_hook_calls
    /\ hook_calls' = hook_calls + 1
    /\ UNCHANGED <<ts_vars, stmt_vars, fatal, hist, shadow, callers, inserter_vars,
                   rewriter_vars, extractor_vars>>

\* a hook call of code whose method calls are not followed
HookCall ==
    /\ HookCallUpTo(MaxHookCalls)
    /\ UNCHANGED open_calls

\* instrumented code calls the begin hook
BeginOn(objs, subs, ctxs) ==
    /\ HookCall
    /\ \E obj \in objs, key \in Keys, is_subscript \in subs, ctx \in ctxs,
          call_context \in BOOLEAN, override_active_scope \in BOOLEAN :
          /\ ctx # "Load" => Len(store_objs[saved_store_data]) < MaxStores
          /\ \E scope_name \in ScopeNames(obj, is_subscript),
                live \in IF DoesLiveLookup(obj, key, is_subscript, ctx, call_context)
                         THEN LiveOutcomes(is_subscript) ELSE {None} :
                AttrsubTracer(obj, key, is_subscript, ctx, call_context,
                              override_active_scope, scope_name, live)

\* instrumented code calls the end hook
EndOn(objs) ==
    /\ HookCall
    /\ \E obj \in objs, args \in Orderings(args_objs[recorded_args]) :
          ExprTracer(obj, args)

\* instrumented code calls the argument recorder
RecordArgumentOn(objs) ==
    /\ HookCall
    /\ \E obj \in objs, name \in ArgNames : ArgRecorder(obj, name)

\* the statement finaliser resets the per-statement state
ResetCall ==
    /\ HookCall
    /\ Reset

(***************************************************************************)
(* Spec: the state machine alone, fed every event on every statement.      *)
(***************************************************************************)
Event == EventOn(TraceEvent, Stmts, MaxEvents)

Next == Event

Spec == Init /\ [][Next]_vars

(***************************************************************************)
(* SpecHooks: the hooks alone, on every input.                             *)
(***************************************************************************)
Begin == BeginOn(Objs \cup {None}, BOOLEAN, Ctxs)

End == EndOn({"a", None})

RecordArgument == RecordArgumentOn({"a"})

NextHooks == Begin \/ End \/ RecordArgument \/ ResetCall

SpecHooks == Init /\ [][NextHooks]_vars

(***************************************************************************)
(* SpecFrames: calls into and returns from a function, with hook calls on  *)
(* one object in between.                                                  *)
(***************************************************************************)
FrameEvent == EventOn({"line", "call", "return"}, {"def_f"}, MaxFrameEvents)

FrameBegin == BeginOn({"a"}, {FALSE}, {"Load", "Store"})

NextFrames == FrameEvent \/ FrameBegin \/ End \/ RecordArgument \/ ResetCall

SpecFrames == Init /\ [][NextFrames]_vars

(***************************************************************************)
(* StatementInserter (tracing/stmt_inserter.py) on the statement trees of  *)
(* a parsed cell.  A node is a record with the fields its class has: body  *)
(* (module, function, class, with, handler), body and orelse (if, for,     *)
(* while), body, handlers, orelse and finalbody (try).                     *)
(***************************************************************************)
\* compound statements with a body only, and with a body and an else branch
BlockTypes == {"FunctionDef", "ClassDef", "With"}
BranchTypes == {"If", "For", "While"}

\* the subclasses of ast.stmt among the node classes of the model
StmtTypes == BlockTypes \cup BranchTypes \cup {"Try", "Pass", "Expr"}

\* the cell counters an inserter is constructed with
CellCounters == {1, 2}

\* The statements, statement lists and handler lists a parser can produce,
\* by number of statements and handlers in them.  A body is never empty; a
\* try has a handler or a finally branch, and an else branch only with a
\* handler.
RECURSIVE StmtsOfSize(_), StmtListsOfSize(_), HandlerListsOfSize(_)
StmtListsOfSize(n) ==
    IF n = 0 THEN {<< >>}
    ELSE UNION {{<<s>> \o rest : s \in StmtsOfSize(m),
                                rest \in StmtListsOfSize(n - m)} : m \in 1 .. n}

HandlerListsOfSize(n) ==
    IF n = 0 THEN {<< >>}
    ELSE UNION {{<<[type |-> "ExceptHandler", body |-> b]>> \o rest :
                     b \in StmtListsOfSize(m - 1),
                     rest \in HandlerListsOfSize(n - m)} : m \in 2 .. n}

StmtsOfSize(n) ==
    IF n = 1 THEN {[type |-> "Pass"]}
    ELSE {[type |-> t, body |-> b] :
              t \in BlockTypes, b \in StmtListsOfSize(n - 1)}
         \cup
         UNION {{[type |-> t, body |-> b, orelse |-> e] :
                     t \in BranchTypes, b \in StmtListsOfSize(i),
                     e \in StmtListsOfSize(n - 1 - i)} : i \in 1 .. (n - 1)}
         \cup
         UNION {UNION {UNION {
             {[type |-> "Try", body |-> b, handlers |-> h, orelse |-> e,
               finalbody |-> f] :
                  b \in StmtListsOfSize(i), h \in HandlerListsOfSize(j),
                  e \in StmtListsOfSize(k),
                  f \in StmtListsOfSize(n - 1 - i - j - k)} :
             k \in {x \in 0 .. (n - 1 - i - j) :
                        /\ j > 0 \/ n - 1 - i - j - x > 0
                        /\ x > 0 => j > 0}} :
             j \in 0 .. (n - 1 - i)} :
             i \in 1 .. (n - 1)}

\* the parsed cells of at most n statements and handlers
ModulesUpTo(n) ==
    {[type |-> "Module", body |-> b] :
         b \in UNION {StmtListsOfSize(m) : m \in 0 .. n}}

\* hasattr(node, name)
HasAttr(node, name) == name \in DOMAIN node

\* _get_parsed_insert_stmt with _cur_line_id = line_id: the marker
\* statement parsed from the template (the increment is made by the caller)
GetParsedInsertStmt(line_id) ==
    [type |-> "Expr", site_id |-> <<cell_counter, line_id>>]

\* visit(node) with _cur_line_id = line_id: the node returned and the
\* _cur_line_id left.  VisitHandlers is the loop of lines 18-19 from
\* handler i on, VisitBody the loop of lines 26-30 from statement i on.
RECURSIVE StatementInserterVisit(_, _), VisitHandlers(_, _, _), VisitBody(_, _, _)
VisitHandlers(handlers, i, line_id) ==
    IF i > Len(handlers)
    THEN [nodes |-> << >>, cur_line_id |-> line_id]
    ELSE LET v == StatementInserterVisit(handlers[i], line_id)
             rest == VisitHandlers(handlers, i + 1, v.cur_line_id)
         IN  [nodes |-> <<v.node>> \o rest.nodes,
              cur_line_id |-> rest.cur_line_id]

VisitBody(body, i, line_id) ==
    IF i > Len(body)
    THEN [nodes |-> << >>, cur_line_id |-> line_id]
    ELSE LET insert_stmt == GetParsedInsertStmt(line_id)
             v == StatementInserterVisit(body[i], line_id + 1)
             rest == VisitBody(body, i + 1, v.cur_line_id)
         IN  [nodes |-> <<insert_stmt, v.node>> \o rest.nodes,
              cur_line_id |-> rest.cur_line_id]

StatementInserterVisit(node, line_id) ==
    LET h == IF HasAttr(node, "handlers")
             THEN VisitHandlers(node.handlers, 1, line_id)
             ELSE [nodes |-> << >>, cur_line_id |-> line_id]
        node1 == IF HasAttr(node, "handlers")
                 THEN [node EXCEPT !.handlers = h.nodes]
                 ELSE node
    IN  IF ~HasAttr(node1, "body")
        THEN [node |-> node1, cur_line_id |-> h.cur_line_id]
        ELSE IF ~\A i \in 1 .. Len(node1.body) : node1.body[i].type \in StmtTypes
        THEN [node |-> node1, cur_line_id |-> h.cur_line_id]
        ELSE LET b == VisitBody(node1.body, 1, h.cur_line_id)
             IN  [node |-> [node1 EXCEPT !.body = b.nodes],
                  cur_line_id |-> b.cur_line_id]

\* a cell is parsed and StatementInserter(template, cell_counter) is
\* constructed for it (__init__)
NewInserter ==
    /\ ins_phase = "idle"
    /\ cell_counter' \in CellCounters
    /\ cur_line_id' = 0
    /\ ins_tree' \in ModulesUpTo(MaxStmtNodes)
    /\ ins_phase' = "parsed"
    /\ UNCHANGED <<ts_vars, stmt_vars, attr_vars, run_vars, rewriter_vars,
                   extractor_vars>>

\* the marker pass: visit(tree)
InsertMarkers ==
    /\ ins_phase = "parsed"
    /\ LET v == StatementInserterVisit(ins_tree, cur_line_id)
       IN  /\ ins_tree' = v.node
           /\ cur_line_id' = v.cur_line_id
    /\ ins_phase' = "marked"
    /\ UNCHANGED <<cell_counter, ts_vars, stmt_vars, attr_vars, run_vars,
                   rewriter_vars, extractor_vars>>

(***************************************************************************)
(* SpecInsert: the marker pass on every small cell.                        *)
(***************************************************************************)
NextInsert == NewInserter \/ InsertMarkers

SpecInsert == Init /\ [][NextInsert]_vars

(***************************************************************************)
(* AttrSubTracingNodeTransformer (tracing/attribute_tracing.py) on the     *)
(* expression trees of a parsed statement.  A node is a record with its    *)
(* class name and the fields of that class.                                *)
(***************************************************************************)
\* the three hook names the manager passes to the transformer
start_tracer == "_NBSAFETY_ATTR_TRACER_START"
end_tracer == "_NBSAFETY_ATTR_TRACER_END"
arg_recorder == "_NBSAFETY_ARG_RECORDER"

\* constructors of the ast module
Name(id, ctx) == [type |-> "Name", id |-> id, ctx |-> ctx]
Str(s) == [type |-> "Str", s |-> s]
NameConstant(v) == [type |-> "NameConstant", value |-> v]
Constant(v) == [type |-> "Constant", value |-> v]
Attribute(value, attr, ctx) ==
    [type |-> "Attribute", value |-> value, attr |-> attr, ctx |-> ctx]
Subscript(value, slice, ctx) ==
    [type |-> "Subscript", value |-> value, slice |-> slice, ctx |-> ctx]
Index(value) == [type |-> "Index", value |-> value]
Call(func, args, keywords) ==
    [type |-> "Call", func |-> func, args |-> args, keywords |-> keywords]
Keyword(arg, value) == [type |-> "keyword", arg |-> arg, value |-> value]
BinOp(left, right) == [type |-> "BinOp", left |-> left, right |-> right]
ExprStmt(value) == [type |-> "Expr", value |-> value]
Assign(targets, value) ==
    [type |-> "Assign", targets |-> targets, value |-> value]

\* identifiers, attribute names and keyword names of the parsed statements
Identifiers == {"a", "f"}
AttrNames == {"b"}
KeywordNames == {"k"}

\* the slices of a subscript: an index expression, a range, an extended
\* slice
UnsupportedSlices == {[type |-> "Slice"], [type |-> "ExtSlice"]}

\* The expressions a parser can produce, by number of nodes (an Index and
\* a keyword are not counted); every context in them is Load.
RECURSIVE ExprsOfSize(_), ExprListsOfSize(_), KeywordListsOfSize(_)
ExprListsOfSize(n) ==
    IF n = 0 THEN {<< >>}
    ELSE UNION {{<<e>> \o rest : e \in ExprsOfSize(m),
                                rest \in ExprListsOfSize(n - m)} : m \in 1 .. n}

KeywordListsOfSize(n) ==
    IF n = 0 THEN {<< >>}
    ELSE UNION {{<<Keyword(k, e)>> \o rest :
                     k \in KeywordNames, e \in ExprsOfSize(m),
                     rest \in KeywordListsOfSize(n - m)} : m \in 1 .. n}

ExprsOfSize(n) ==
    IF n = 1 THEN {Name(id, "Load") : id \in Identifiers}
    ELSE {Attribute(v, attr, "Load") :
              v \in ExprsOfSize(n - 1), attr \in AttrNames}
         \cup
         UNION {{Subscript(v, Index(e), "Load") :
                     v \in ExprsOfSize(i), e \in ExprsOfSize(n - 1 - i)} :
                i \in 1 .. (n - 2)}
         \cup
         (IF n >= 3
          THEN {Subscript(v, s, "Load") :
                    v \in ExprsOfSize(n - 2), s \in UnsupportedSlices}
          ELSE {})
         \cup
         UNION {UNION {{Call(fn, args, kws) :
                            fn \in ExprsOfSize(i), args \in ExprListsOfSize(j),
                            kws \in KeywordListsOfSize(n - 1 - i - j)} :
                       j \in 0 .. (n - 1 - i)} :
                i \in 1 .. (n - 1)}
         \cup
         UNION {{BinOp(l, r) :
                     l \in ExprsOfSize(i), r \in ExprsOfSize(n - 1 - i)} :
                i \in 1 .. (n - 2)}

\* the assignment targets of n nodes: the context of the outermost node is
\* Store
TargetsOfSize(n) ==
    {[e EXCEPT !.ctx = "Store"] :
         e \in {x \in ExprsOfSize(n) :
                    x.type \in {"Name", "Attribute", "Subscript"}}}

\* the parsed statements of at most n expression nodes
StatementsUpTo(n) ==
    UNION {{ExprStmt(e) : e \in ExprsOfSize(m)} : m \in 1 .. n}
    \cup
    UNION {UNION {{Assign(<<t>>, v) :
                       t \in TargetsOfSize(i), v \in ExprsOfSize(m - i)} :
                  i \in 1 .. (m - 1)} :
           m \in 2 .. n}

\* The outcome of a visit: when it returns (exc is FALSE), node is what it
\* returns; orig is the visited node object as the visit leaves it (nodes
\* are rewritten in place); chain is inside_attrsub_load_chain afterwards.
Returns(node, orig, chain) ==
    [node |-> node, orig |-> orig, chain |-> chain, exc |-> FALSE]
Raises(orig, chain) ==
    [node |-> None, orig |-> orig, chain |-> chain, exc |-> TRUE]

\* the fields of a node generic_visit goes through, in the order of _fields
ChildFields(type) ==
    CASE type = "Expr" -> <<"value">>
      [] type = "Assign" -> <<"targets", "value">>
      [] type = "BinOp" -> <<"left", "right">>
      [] type = "keyword" -> <<"value">>
      [] type = "Index" -> <<"value">>
      [] type = "Attribute" -> <<"value">>
      [] type = "Subscript" -> <<"value", "slice">>
      [] type = "Call" -> <<"func", "args", "keywords">>
      [] OTHER -> << >>

\* the fields that hold a list of nodes
ListFields == {"targets", "args", "keywords"}

\* the call of the begin hook that replaces node.value (lines 200-211)
BeginCall(value, attr_or_sub, is_subscript, ctx, call_context, override_active_scope) ==
    Call(Name(start_tracer, "Load"),
         <<value, attr_or_sub, NameConstant(is_subscript), Str(ctx),
           NameConstant(call_context), Constant(override_active_scope)>>,
         << >>)

\* the call of the end hook around node (lines 216-220 and 244-248)
EndCall(node) == Call(Name(end_tracer, "Load"), <<node>>, << >>)

\* the call of the argument recorder around a bare name (lines 232-236)
ArgRecorderCall(arg) ==
    Call(Name(arg_recorder, "Load"), <<arg, Str(arg.id)>>, << >>)

\* visit(node) with inside_attrsub_load_chain = chain.  An exception leaves
\* the flag as the innermost attrsub_load_context set it: the context
\* manager restores the flag after its yield, which a raise skips.
RECURSIVE Visit(_, _), GenericVisitFields(_, _, _, _), VisitList(_, _, _),
          VisitAttributeOrSubscript(_, _, _), VisitCall(_, _),
          VisitArgs(_, _, _)

\* NodeTransformer.generic_visit on a list field, from item i on: the new
\* values, and the old items as they are left
VisitList(items, i, chain) ==
    IF i > Len(items)
    THEN [nodes |-> << >>, origs |-> << >>, chain |-> chain, exc |-> FALSE]
    ELSE LET v == Visit(items[i], chain)
         IN  IF v.exc
             THEN [nodes |-> << >>,
                   origs |-> <<v.orig>> \o SubSeq(items, i + 1, Len(items)),
                   chain |-> v.chain, exc |-> TRUE]
             ELSE LET rest == VisitList(items, i + 1, v.chain)
                  IN  [nodes |-> <<v.node>> \o rest.nodes,
                       origs |-> <<v.orig>> \o rest.origs,
                       chain |-> rest.chain, exc |-> rest.exc]

\* NodeTransformer.generic_visit(node), from field i of fields on
GenericVisitFields(node, fields, i, chain) ==
    IF i > Len(fields)
    THEN Returns(node, node, chain)
    ELSE LET field == fields[i]
         IN  IF field \in ListFields
             THEN LET v == VisitList(node[field], 1, chain)
                  IN  IF v.exc
                      THEN Raises([node EXCEPT ![field] = v.origs], v.chain)
                      ELSE GenericVisitFields([node EXCEPT ![field] = v.nodes],
                                              fields, i + 1, v.chain)
             ELSE LET v == Visit(node[field], chain)
                  IN  IF v.exc
                      THEN Raises([node EXCEPT ![field] = v.orig], v.chain)
                      ELSE GenericVisitFields([node EXCEPT ![field] = v.node],
                                              fields, i + 1, v.chain)

\* visit_Attribute_or_Subscript(node, call_context)
VisitAttributeOrSubscript(node, call_context, chain) ==
    LET override_active_scope == node.ctx = "Load" \/ chain
        is_subscript == node.type = "Subscript"
    IN  IF is_subscript /\ node.slice.type # "Index"
        THEN Raises(node, chain)
        ELSE
        LET attr_or_sub == IF is_subscript THEN node.slice.value
                           ELSE Str(node.attr)
            old == chain
            v == Visit(node.value, override_active_scope)
        IN  IF v.exc
            THEN Raises([node EXCEPT !.value = v.orig], v.chain)
            ELSE
            LET replacement_value ==
                    BeginCall(v.node, attr_or_sub, is_subscript, node.ctx,
                              call_context, override_active_scope)
                node1 == [node EXCEPT !.value = replacement_value]
            IN  IF ~old /\ override_active_scope
                THEN Returns(EndCall(node1), node1, old)
                ELSE Returns(node1, node1, old)

\* the loop of visit_Call over node.args (lines 230-240), from argument i
VisitArgs(args, i, chain) ==
    IF i > Len(args)
    THEN [nodes |-> << >>, origs |-> << >>, chain |-> chain, exc |-> FALSE]
    ELSE IF args[i].type = "Name"
    THEN LET rest == VisitArgs(args, i + 1, chain)
         IN  [nodes |-> <<ArgRecorderCall(args[i])>> \o rest.nodes,
              origs |-> <<args[i]>> \o rest.origs,
              chain |-> rest.chain, exc |-> rest.exc]
    ELSE LET old == chain
             v == Visit(args[i], FALSE)
         IN  IF v.exc
             THEN [nodes |-> << >>,
                   origs |-> <<v.orig>> \o SubSeq(args, i + 1, Len(args)),
                   chain |-> v.chain, exc |-> TRUE]
             ELSE LET rest == VisitArgs(args, i + 1, old)
                  IN  [nodes |-> <<v.node>> \o rest.nodes,
                       origs |-> <<v.orig>> \o rest.origs,
                       chain |-> rest.chain, exc |-> rest.exc]

\* visit_Call(node); the callee of a parsed call has context Load
VisitCall(node, chain) ==
    IF node.func.type # "Attribute"
    THEN Returns(node, node, chain)
    ELSE
    LET old == chain
        fn == VisitAttributeOrSubscript(node.func, TRUE, TRUE)
    IN  IF fn.exc
        THEN Raises([node EXCEPT !.func = fn.orig], fn.chain)
        ELSE
        LET node1 == [node EXCEPT !.func = fn.node]
            a == VisitArgs(node1.args, 1, old)
        IN  IF a.exc
            THEN Raises([node1 EXCEPT !.args = a.origs], a.chain)
            ELSE
            LET node2 == [node1 EXCEPT !.args = a.nodes]
            IN  IF old
                THEN Returns(node2, node2, old)
                ELSE Returns(EndCall(node2), node2, old)

\* NodeVisitor.visit(node): the visit_<class> method, or generic_visit
Visit(node, chain) ==
    CASE node.type \in {"Attribute", "Subscript"} ->
             VisitAttributeOrSubscript(node, FALSE, chain)
      [] node.type = "Call" -> VisitCall(node, chain)
      [] OTHER -> GenericVisitFields(node, ChildFields(node.type), 1, chain)

\* the statement of the next cell is parsed and handed to the transformer
ParseCell ==
    /\ rw_phase = "idle"
    /\ cells_done < MaxCells
    /\ \E stmt \in StatementsUpTo(MaxExprNodes) :
          /\ rw_input' = stmt
          /\ rw_tree' = stmt
    /\ rw_phase' = "parsed"
    /\ cells_done' = cells_done + 1
    /\ UNCHANGED <<inside_attrsub_load_chain, ts_vars, stmt_vars, attr_vars,
                   run_vars, inserter_vars, extractor_vars>>

\* the rewriting pass: ast_transformer.visit(statement)
Rewrite ==
    /\ rw_phase = "parsed"
    /\ LET v == Visit(rw_tree, inside_attrsub_load_chain)
       IN  /\ rw_tree' = IF v.exc THEN v.orig ELSE v.node
           /\ inside_attrsub_load_chain' = v.chain
           /\ rw_phase' = IF v.exc THEN "failed" ELSE "rewritten"
    /\ UNCHANGED <<rw_input, cells_done, ts_vars, stmt_vars, attr_vars,
                   run_vars, inserter_vars, extractor_vars>>

\* the cell is done with; the transformer object stays
FinishCell ==
    /\ rw_phase \in {"rewritten", "failed"}
    /\ rw_input' = None
    /\ rw_tree' = None
    /\ rw_phase' = "idle"
    /\ UNCHANGED <<inside_attrsub_load_chain, cells_done, ts_vars, stmt_vars,
                   attr_vars, run_vars, inserter_vars, extractor_vars>>

(***************************************************************************)
(* SpecRewrite: the rewriting pass on every small statement, cell after    *)
(* cell.                                                                   *)
(***************************************************************************)
NextRewrite == ParseCell \/ Rewrite \/ FinishCell

SpecRewrite == Init /\ [][NextRewrite]_vars

(***************************************************************************)
(* The claims about the state machine and the hooks.                       *)
(***************************************************************************)
\* C1: after every event the hook has processed to completion, whatever
\* the sequence of events, the state machine's call stack and the runtime's
\* snapshot stack have the same depth, the number of call events minus the
\* number of return events processed so far.
C1_StackDepthsAgree ==
    fatal = "none" =>
        /\ Len(stack) = Len(attr_stack)
        /\ Len(stack) = hist.calls - hist.returns

\* a call processed after a call and its return
C1_Witness ==
    /\ fatal = "none"
    /\ last.op = "event"
    /\ last.ev = "call"
    /\ hist.calls = 2
    /\ hist.returns = 1
    /\ Len(attr_stack) = 1

C3_CandidateHonoredAtSameCounter ==
    [][/\ trace_event_counter' = hist'.events
       /\ mutation_candidate' # NoCandidate =>
              mutation_candidate'.counter <= trace_event_counter'
       /\ last'.op = "end" =>
              /\ mutation_candidate' = NoCandidate
              /\ mutations' = mutations
              /\ mutation_objs'[mutations] # mutation_objs[mutations] =>
                     /\ mutation_candidate # NoCandidate
                     /\ last'.obj = None
                     /\ mutation_candidate.counter = hist.events]_vars

\* an end with a null argument that finds the candidate recorded before a
\* call/return pair and records no mutation
C3_Witness ==
    /\ last.op = "end"
    /\ last.obj = None
    /\ last.info # NoCandidate
    /\ last.info.counter = 1
    /\ hist = [events |-> 3, calls |-> 1, returns |-> 1]
    /\ mutation_objs[mutations] = {}

\* the return events C4 is about: completed, not right after an exception,
\* from a lambda body or resolved to a return statement, returning to a
\* statement that is not a class header
AttributingReturn ==
    /\ last'.op = "event"
    /\ last'.ev = "return"
    /\ fatal' = "none"
    /\ prev_event # "exception"
    /\ (inside_lambda \/ StmtNode(last'.stmt) = "Return")
    /\ StmtNode(stack[Len(stack)][1]) # "ClassDef"

\* C4 as stated: every such return appends exactly one dependency set to
\* the return-to statement's call-point dependency list, also when the same
\* function or lambda is called several times.
C4_OncePerCall ==
    [][AttributingReturn =>
           LET return_to_stmt == stack[Len(stack)][1]
           IN  Len(call_point_deps'[return_to_stmt]) =
                   Len(call_point_deps[return_to_stmt]) + 1]_vars

\* C4 as amended: such a return appends exactly one dependency set, and
\* sets the returning statement's one-shot flag, if that flag is not set;
\* if it is set (a later call that returns from the same statement), the
\* return appends nothing.
C4_OncePerStatement ==
    [][AttributingReturn =>
           LET return_to_stmt == stack[Len(stack)][1]
               trace_stmt == last'.stmt
           IN  IF lambda_call_point_deps_done_once[trace_stmt]
               THEN /\ call_point_deps' = call_point_deps
                    /\ lambda_call_point_deps_done_once' =
                           lambda_call_point_deps_done_once
               ELSE /\ call_point_deps' =
                           [call_point_deps EXCEPT ![return_to_stmt] =
                                Append(@, ComputeRvalDependencies(trace_stmt))]
                    /\ lambda_call_point_deps_done_once' =
                           [lambda_call_point_deps_done_once
                                EXCEPT ![trace_stmt] = TRUE]]_vars

\* the second return from the same return statement: nothing is appended
C4_Witness ==
    /\ last.op = "event"
    /\ last.ev = "return"
    /\ fatal = "none"
    /\ last.pe # "exception"
    /\ last.stmt = "ret"
    /\ prev_trace_stmt_in_cur_frame = "asg"
    /\ hist.returns = 2
    /\ ~last.info.appended
    /\ call_point_deps["asg"] = <<ComputeRvalDependencies("ret")>>

\* C5: a return event right after an exception event attributes nothing
\* (no call-point dependency, no class scope, no one-shot flag) and marks
\* no statement finished; when it completes it has popped one entry of the
\* call stack and one snapshot, restored the lambda flag and set the
\* previous statement of the current frame to the popped return-to
\* statement.
C5_ReturnAfterException ==
    [][(last'.op = "event" /\ last'.ev = "return" /\ prev_event = "exception") =>
           /\ UNCHANGED <<call_point_deps, class_scope,
                          lambda_call_point_deps_done_once, finished>>
           /\ fatal' = "none" =>
                  /\ stack' = SubSeq(stack, 1, Len(stack) - 1)
                  /\ attr_stack' = SubSeq(attr_stack, 1, Len(attr_stack) - 1)
                  /\ inside_lambda' = stack[Len(stack)][2]
                  /\ prev_trace_stmt_in_cur_frame' = stack[Len(stack)][1]]_vars

\* a return statement returning from a function's frame right after an
\* exception: the frame is popped and nothing is attributed
C5_Witness ==
    /\ last.op = "event"
    /\ last.ev = "return"
    /\ last.pe = "exception"
    /\ last.stmt = "ret"
    /\ fatal = "none"
    /\ last.info.dropped.original_active_scope = "fn_f"
    /\ prev_trace_stmt_in_cur_frame = "asg"
    /\ ~lambda_call_point_deps_done_once["ret"]
    /\ call_point_deps["asg"] = << >>

\* C6: a return event delivered while the call stack is empty ends in an
\* exception whatever the previous event was, leaves both stacks empty and
\* records no dependency.
C6_ReturnOnEmptyStackIsFatal ==
    [][(last'.op = "event" /\ last'.ev = "return" /\ stack = << >>) =>
           /\ fatal' # "none"
           /\ stack' = << >>
           /\ attr_stack' = << >>
           /\ UNCHANGED <<call_point_deps, class_scope,
                          lambda_call_point_deps_done_once>>]_vars

\* a return on an empty stack right after an exception event, where the
\* finished check is skipped
C6_Witness ==
    /\ last.op = "event"
    /\ last.ev = "return"
    /\ last.pe = "exception"
    /\ fatal = "IndexError"
    /\ stack = << >>
    /\ attr_stack = << >>

\* every DataCell held by some scope
ScopeCells(sc) == UNION {{sc[r].cells[k] : k \in DOMAIN sc[r].cells} : r \in DOMAIN sc}

\* every DataCell held by the alias index
AliasCells(al) == UNION {al[i] : i \in DOMAIN al}

\* C7: a begin in load context, not in call position, whose live lookup
\* raises the attribute-not-found condition creates no DataCell in any
\* scope, adds none to the alias index and leaves the loaded set as it was.
C7_FailedLoadIsDropped ==
    [][(last'.op = "begin" /\ last'.info = "AttributeError") =>
           /\ ScopeCells(scopes') \subseteq ScopeCells(scopes)
           /\ AliasCells(aliases') \subseteq AliasCells(aliases)
           /\ loaded_data_cells' = loaded_data_cells]_vars

\* C8: begin, end and record_argument return the object they were given,
\* for every input, and a begin on a null object changes no runtime state.
C8_HooksAreTransparent ==
    [][/\ last'.op \in {"begin", "end", "arg"} =>
              /\ last'.exc = "none"
              /\ last'.ret = last'.obj
       /\ (last'.op = "begin" /\ last'.obj = None) =>
              UNCHANGED <<registry_vars, frame_vars, loaded_data_cells,
                          attr_stack>>]_vars

(***************************************************************************)
(* The claims about the two rewriting passes.                              *)
(***************************************************************************)
\* a marker statement
IsMarker(stmt) == HasAttr(stmt, "site_id")

\* a statement sequence in which every original statement has exactly one
\* marker right before it: marker, statement, marker, statement, ...
MarkedSequence(stmts) ==
    /\ Len(stmts) % 2 = 0
    /\ \A i \in 1 .. Len(stmts) : IsMarker(stmts[i]) <=> i % 2 = 1

\* the statement sequences of a node
SequenceFields(node) == {"body", "orelse", "finalbody"} \cap DOMAIN node

\* every statement sequence at and below node is a marked sequence
RECURSIVE MarkedEverywhere(_)
MarkedEverywhere(node) ==
    /\ \A f \in SequenceFields(node) :
          /\ MarkedSequence(node[f])
          /\ \A i \in 1 .. Len(node[f]) : MarkedEverywhere(node[f][i])
    /\ HasAttr(node, "handlers") =>
          \A i \in 1 .. Len(node.handlers) : MarkedEverywhere(node.handlers[i])

\* the site identifiers of the markers at and below node, in tree order
RECURSIVE SiteIds(_), SiteIdsOfList(_)
SiteIdsOfList(nodes) ==
    IF nodes = << >> THEN << >>
    ELSE SiteIds(Head(nodes)) \o SiteIdsOfList(Tail(nodes))

SiteIds(node) ==
    IF IsMarker(node) THEN <<node.site_id>>
    ELSE (IF HasAttr(node, "handlers") THEN SiteIdsOfList(node.handlers) ELSE << >>)
         \o (IF HasAttr(node, "body") THEN SiteIdsOfList(node.body) ELSE << >>)
         \o (IF HasAttr(node, "orelse") THEN SiteIdsOfList(node.orelse) ELSE << >>)
         \o (IF HasAttr(node, "finalbody") THEN SiteIdsOfList(node.finalbody) ELSE << >>)

\* C9: after the marker pass, in every statement sequence of the cell
\* (bodies, handlers' bodies, else and finally branches, at any depth)
\* each original statement is immediately preceded by exactly one marker,
\* and the site identifiers of the markers are pairwise distinct.
C9_EveryStatementIsMarked ==
    ins_phase = "marked" =>
        /\ MarkedEverywhere(ins_tree)
        /\ LET ids == SiteIds(ins_tree)
           IN  \A i, j \in 1 .. Len(ids) : ids[i] = ids[j] => i = j

\* a call of the begin hook
IsBeginCall(node) ==
    /\ node.type = "Call"
    /\ node.func = Name(start_tracer, "Load")

\* every attribute or subscript access at or below node has a call of the
\* begin hook as the object it is made on
RECURSIVE AccessesWrapped(_)
AccessesWrapped(node) ==
    /\ node.type \in {"Attribute", "Subscript"} => IsBeginCall(node.value)
    /\ LET fields == ChildFields(node.type)
       IN  \A i \in 1 .. Len(fields) :
               IF fields[i] \in ListFields
               THEN \A j \in 1 .. Len(node[fields[i]]) :
                        AccessesWrapped(node[fields[i]][j])
               ELSE AccessesWrapped(node[fields[i]])

\* C10: after the rewriting pass every attribute or subscript access of the
\* statement is wrapped in a begin-hook call, wherever it occurs: standing
\* alone, as an assignment target, in the positional or keyword arguments
\* of a method call, in the arguments of a call of a bare identifier, in a
\* subscript's index expression.
C10_EveryAccessIsWrapped ==
    rw_phase = "rewritten" => AccessesWrapped(rw_tree)

\* C11: a rewriting pass that fails (it met a range or extended subscript)
\* leaves no partial instrumentation: the statement is as it was parsed,
\* and the transformer's inside-a-load-chain flag is what it was before the
\* attempt.
C11_FailureLeavesNoTrace ==
    [][rw_phase' = "failed" =>
           /\ rw_tree' = rw_input'
           /\ inside_attrsub_load_chain' = inside_attrsub_load_chain]_vars

(***************************************************************************)
(* GetHyperEdgeNames (analysis/hyperedge.py): the names a statement        *)
(* writes and the names it reads.  The visitor holds references to set     *)
(* objects: sets is the heap of the set objects made so far, and           *)
(* lval_name_set, rval_name_set and to_add_set are references into it.     *)
(***************************************************************************)
\* more constructors of the ast module
NoneNode == [type |-> "NoneType"]
Pass == [type |-> "Pass"]
Arg(arg) == [type |-> "arg", arg |-> arg]
Arguments(args, defaults) == [type |-> "arguments", args |-> args, vararg |-> NoneNode, kwonlyargs |-> << >>, kw_defaults |-> << >>, kwarg |-> NoneNode, defaults |-> defaults]
Lambda(args, body) == [type |-> "Lambda", args |-> args, body |-> body]
AugAssign(target, value) == [type |-> "AugAssign", target |-> target, value |-> value]
For(target, iter, body) == [type |-> "For", target |-> target, iter |-> iter, body |-> body, orelse |-> << >>]
FunctionDef(name, args, body) == [type |-> "FunctionDef", name |-> name, args |-> args, body |-> body, decorator_list |-> << >>]
ClassDef(name, bases, body) == [type |-> "ClassDef", name |-> name, bases |-> bases, keywords |-> << >>, body |-> body, decorator_list |-> << >>]
WithItem(context_expr, optional_vars) == [type |-> "withitem", context_expr |-> context_expr, optional_vars |-> optional_vars]
With(items, body) == [type |-> "With", items |-> items, body |-> body]

\* GetHyperEdgeNames.__init__: two empty sets, names go to the read set
GetHyperEdgeNamesInit ==
    [sets |-> <<{}, {}>>, lval_name_set |-> 1, rval_name_set |-> 2,
     to_add_set |-> 2]

\* set_object.add(name) on the set object ref refers to
SetAdd(st, ref, name) == [st EXCEPT !.sets[ref] = @ \cup {name}]

\* the fields NodeVisitor.generic_visit goes through for the node classes
\* that have no visit method in GetHyperEdgeNames, in the order of _fields
EdgeChildFields(type) ==
    CASE type = "Expr" -> <<"value">>
      [] type = "BinOp" -> <<"left", "right">>
      [] type = "Attribute" -> <<"value">>
      [] type = "Call" -> <<"func", "args", "keywords">>
      [] type = "keyword" -> <<"value">>
      [] type = "Index" -> <<"value">>
      [] type = "ClassDef" -> <<"bases", "keywords", "body", "decorator_list">>
      [] type = "With" -> <<"items", "body">>
      [] type = "withitem" -> <<"context_expr", "optional_vars">>
      [] OTHER -> << >>

\* the fields that hold a list of nodes
EdgeListFields == {"args", "keywords", "bases", "body", "decorator_list", "items"}

RECURSIVE EdgeVisit(_, _), EdgeVisitList(_, _, _), EdgeGenericVisit(_, _, _, _)

\* generic_visit on a list: every item is visited, from item i on
EdgeVisitList(items, i, st) ==
    IF i > Len(items) THEN st
    ELSE EdgeVisitList(items, i + 1, EdgeVisit(items[i], st))

\* NodeVisitor.generic_visit(node), from field i of fields on
EdgeGenericVisit(node, fields, i, st) ==
    IF i > Len(fields) THEN st
    ELSE EdgeGenericVisit(node, fields, i + 1,
             IF fields[i] \in EdgeListFields
             THEN EdgeVisitList(node[fields[i]], 1, st)
             ELSE EdgeVisit(node[fields[i]], st))

\* visit_Assign, visit_AugAssign and visit_For: the targets with the write
\* set as the set names go to, then the value with the read set
EdgeVisitTargetsThenValue(targets, value, st) ==
    LET s1 == [st EXCEPT !.to_add_set = st.lval_name_set]
        s2 == EdgeVisitList(targets, 1, s1)
        s3 == [s2 EXCEPT !.to_add_set = s2.rval_name_set]
    IN  EdgeVisit(value, s3)

\* visit_arguments: the defaults only
EdgeVisitArguments(node, st) ==
    EdgeVisitList(node.kw_defaults, 1, EdgeVisitList(node.defaults, 1, st))

\* visit_FunctionDef
EdgeVisitFunctionDef(node, st) ==
    LET s1 == SetAdd(st, st.lval_name_set, node.name)
        s2 == [s1 EXCEPT !.to_add_set = s1.rval_name_set]
    IN  EdgeVisit(node.args, s2)

\* visit_Lambda: the body and the defaults are visited, then the parameters
\* are visited with rval_name_set bound to a new empty set, and
\* rval_name_set is bound to the difference, which is a new set object
EdgeVisitLambda(node, st) ==
    LET s1 == EdgeVisit(node.body, st)
        s2 == EdgeVisit(node.args, s1)
        old == s2.rval_name_set
        s3 == [s2 EXCEPT !.sets = Append(@, {}),
                         !.rval_name_set = Len(s2.sets) + 1]
        s4 == EdgeVisitList(node.args.args, 1, s3)
        s5 == EdgeVisit(node.args.vararg, s4)
        s6 == EdgeVisitList(node.args.kwonlyargs, 1, s5)
        s7 == EdgeVisit(node.args.kwarg, s6)
    IN  [s7 EXCEPT !.sets = Append(@, s7.sets[old] \ s7.sets[s7.rval_name_set]),
                   !.rval_name_set = Len(s7.sets) + 1]

\* NodeVisitor.visit(node): the visit_<class> method, or generic_visit
EdgeVisit(node, st) ==
    CASE node.type = "Name" -> SetAdd(st, st.to_add_set, node.id)
      [] node.type = "Subscript" -> EdgeVisit(node.value, st)
      [] node.type = "Assign" ->
             EdgeVisitTargetsThenValue(node.targets, node.value, st)
      [] node.type = "AugAssign" ->
             EdgeVisitTargetsThenValue(<<node.target>>, node.value, st)
      [] node.type = "For" ->
             EdgeVisitTargetsThenValue(<<node.target>>, node.iter, st)
      [] node.type \in {"FunctionDef", "AsyncFunctionDef"} ->
             EdgeVisitFunctionDef(node, st)
      [] node.type = "Lambda" -> EdgeVisitLambda(node, st)
      [] node.type = "arguments" -> EdgeVisitArguments(node, st)
      [] node.type = "arg" -> SetAdd(st, st.rval_name_set, node.arg)
      [] node.type = "NoneType" -> st
      [] OTHER -> EdgeGenericVisit(node, EdgeChildFields(node.type), 1, st)

\* get_hyperedge_lvals_and_rvals(node): GetHyperEdgeNames()(node)
GetHyperedgeLvalsAndRvals(node) ==
    LET st == EdgeVisit(node, GetHyperEdgeNamesInit)
    IN  [lvals |-> st.sets[st.lval_name_set],
         rvals |-> st.sets[st.rval_name_set]]

\* The statements handed to the extractor.  Parameter lists of lambdas and
\* functions, names of classes and functions, names bound by a target, and
\* the bodies of compound statements (the names of a body occur nowhere in
\* a header).
ParamLists == {<< >>, <<Arg("a")>>}
DefNames == {"K"}
TargetNames == {"t"}
EdgeBodies == {<<Pass>>, <<Assign(<<Name("u", "Store")>>, Name("v", "Load"))>>}

\* expressions by number of nodes (an arguments node, an arg and an Index
\* are not counted)
RECURSIVE EdgeExprsOfSize(_), EdgeExprListsOfSize(_)
EdgeExprListsOfSize(n) ==
    IF n = 0 THEN {<< >>}
    ELSE UNION {{<<e>> \o rest : e \in EdgeExprsOfSize(m),
                                rest \in EdgeExprListsOfSize(n - m)} :
                m \in 1 .. n}

EdgeExprsOfSize(n) ==
    IF n = 1 THEN {Name(id, "Load") : id \in Identifiers}
    ELSE {Lambda(Arguments(params, << >>), e) :
              params \in ParamLists, e \in EdgeExprsOfSize(n - 1)}
         \cup
         {Attribute(v, attr, "Load") :
              v \in EdgeExprsOfSize(n - 1), attr \in AttrNames}
         \cup
         UNION {{Call(fn, args, << >>) :
                     fn \in EdgeExprsOfSize(i),
                     args \in EdgeExprListsOfSize(n - 1 - i)} :
                i \in 1 .. (n - 1)}
         \cup
         UNION {{BinOp(l, r) :
                     l \in EdgeExprsOfSize(i), r \in EdgeExprsOfSize(n - 1 - i)} :
                i \in 1 .. (n - 2)}
         \cup
         UNION {{Subscript(v, Index(e), "Load") :
                     v \in EdgeExprsOfSize(i), e \in EdgeExprsOfSize(n - 1 - i)} :
                i \in 1 .. (n - 2)}

EdgeExprsUpTo(n) == UNION {EdgeExprsOfSize(m) : m \in 1 .. n}

\* the targets of assignments, loops and with items
EdgeTargets == {Name(id, "Store") : id \in TargetNames}

\* the base-class lists of a class header: at most two names
EdgeBaseLists ==
    UNION {[1 .. m -> {Name(id, "Load") : id \in Identifiers}] : m \in 0 .. 2}

\* the statements whose expressions have at most n nodes in all
EdgeStatementsUpTo(n) ==
    {ExprStmt(e) : e \in EdgeExprsUpTo(n)}
    \cup
    {Assign(<<t>>, e) : t \in EdgeTargets, e \in EdgeExprsUpTo(n - 1)}
    \cup
    {AugAssign(t, e) : t \in EdgeTargets, e \in EdgeExprsUpTo(n - 3)}
    \cup
    {For(t, e, body) :
         t \in EdgeTargets, e \in EdgeExprsUpTo(n - 1), body \in EdgeBodies}
    \cup
    {With(<<WithItem(e, t)>>, body) :
         e \in EdgeExprsUpTo(n - 2), t \in EdgeTargets \cup {NoneNode},
         body \in EdgeBodies}
    \cup
    {ClassDef(name, bases, body) :
         name \in DefNames, bases \in EdgeBaseLists, body \in EdgeBodies}
    \cup
    {FunctionDef(name, Arguments(params, defaults), body) :
         name \in DefNames, params \in ParamLists,
         defaults \in UNION {EdgeExprListsOfSize(m) : m \in 0 .. 1},
         body \in EdgeBodies}

\* a statement is parsed and handed to the extractor
ParseStatement ==
    /\ he_phase = "idle"
    /\ he_stmt' \in EdgeStatementsUpTo(MaxEdgeNodes)
    /\ he_phase' = "parsed"
    /\ UNCHANGED <<he_result, ts_vars, stmt_vars, attr_vars, run_vars,
                   inserter_vars, rewriter_vars>>

\* get_hyperedge_lvals_and_rvals(statement)
Extract ==
    /\ he_phase = "parsed"
    /\ he_result' = GetHyperedgeLvalsAndRvals(he_stmt)
    /\ he_phase' = "extracted"
    /\ UNCHANGED <<he_stmt, ts_vars, stmt_vars, attr_vars, run_vars,
                   inserter_vars, rewriter_vars>>

(***************************************************************************)
(* SpecExtract: the extractor on every small statement.                    *)
(***************************************************************************)
NextExtract == ParseStatement \/ Extract

SpecExtract == Init /\ [][NextExtract]_vars

(***************************************************************************)
(* What a statement says, read off its syntax tree alone.                  *)
(***************************************************************************)
\* the nodes of an expression in source order, the index of a subscript
\* left out (spec 4.1: an index expression adds no read)
RECURSIVE NodesOf(_), NodesOfList(_)
NodesOfList(items) ==
    IF items = << >> THEN << >>
    ELSE NodesOf(Head(items)) \o NodesOfList(Tail(items))

NodesOf(e) ==
    <<e>> \o
    CASE e.type \in {"Attribute", "Subscript"} -> NodesOf(e.value)
      [] e.type = "Call" -> NodesOf(e.func) \o NodesOfList(e.args)
      [] e.type = "BinOp" -> NodesOf(e.left) \o NodesOf(e.right)
      [] e.type = "Lambda" -> NodesOfList(e.args.defaults) \o NodesOf(e.body)
      [] OTHER -> << >>

\* the expressions a statement's header evaluates, and the targets it binds
HeaderExprs(stmt) ==
    CASE stmt.type \in {"Expr", "Assign", "AugAssign"} -> <<stmt.value>>
      [] stmt.type = "For" -> <<stmt.iter>>
      [] stmt.type = "With" -> <<stmt.items[1].context_expr>>
      [] stmt.type = "ClassDef" -> stmt.bases
      [] OTHER -> << >>
HeaderTargets(stmt) ==
    CASE stmt.type = "Assign" -> stmt.targets
      [] stmt.type \in {"AugAssign", "For"} -> <<stmt.target>>
      [] stmt.type = "With" -> <<stmt.items[1].optional_vars>>
      [] OTHER -> << >>

\* the names in the header's expressions, the names its targets bind, its
\* lambdas, and the names their parameters bind
NamesIn(nodes) == {nodes[i].id : i \in {j \in DOMAIN nodes : nodes[j].type = "Name"}}
HeaderNames(stmt) == NamesIn(NodesOfList(HeaderExprs(stmt)))
TargetNamesOf(stmt) == NamesIn(HeaderTargets(stmt))
LambdasOf(stmt) ==
    LET nodes == NodesOfList(HeaderExprs(stmt))
    IN  {i \in DOMAIN nodes : nodes[i].type = "Lambda"}
LambdaParamsOf(stmt) ==
    LET nodes == NodesOfList(HeaderExprs(stmt))
    IN  UNION {{nodes[i].args.args[k].arg : k \in DOMAIN nodes[i].args.args} :
               i \in LambdasOf(stmt)}

\* C12: for a statement with a lambda in it, the returned read-set is every
\* name the statement reads but the names the lambda's parameters bind,
\* wherever in the statement the name is read, before or after the lambda.
C12_LambdaReads ==
    (/\ he_phase = "extracted"
     /\ he_stmt.type \in {"Expr", "Assign", "For"}
     /\ Cardinality(LambdasOf(he_stmt)) = 1)
    => he_result.rvals = HeaderNames(he_stmt) \ LambdaParamsOf(he_stmt)

\* C13: for a class definition the returned write-set is the class's own
\* name and the returned read-set is the names of its base-class list.
C13_ClassHeader ==
    (he_phase = "extracted" /\ he_stmt.type = "ClassDef")
    => /\ he_result.lvals = {he_stmt.name}
       /\ he_result.rvals = HeaderNames(he_stmt)

\* C14: for a with statement the returned write-set is the names the
\* as-target binds, the returned read-set is the names the context
\* expression reads, and the body adds no name.
C14_WithHeader ==
    (/\ he_phase = "extracted"
     /\ he_stmt.type = "With"
     /\ LambdasOf(he_stmt) = {})
    => /\ he_result.lvals = TargetNamesOf(he_stmt)
       /\ he_result.rvals = HeaderNames(he_stmt)

\* C15: for a for loop the returned write-set is the loop variable and the
\* returned read-set is the names of the iterable expression, the body
\* adding no name; for a simple assignment the write-set is the target
\* names and the read-set the names of the value expression.  (The index
\* of a subscript adds no read and the parameters of a lambda are no
\* reads, as section 4.1 of the specification has it.)
C15_LoopHeaderAndAssignments ==
    (/\ he_phase = "extracted"
     /\ he_stmt.type \in {"For", "Assign"}
     /\ Cardinality(LambdasOf(he_stmt)) <= 1)
    => /\ he_result.lvals = TargetNamesOf(he_stmt)
       /\ he_result.rvals = HeaderNames(he_stmt) \ LambdaParamsOf(he_stmt)

(***************************************************************************)
(* More claims about the hooks and the state machine.                      *)
(***************************************************************************)
\* the contents of the snapshots on the runtime's stack
SnapshotContents ==
    [i \in DOMAIN attr_stack |->
        [saved_store_data |-> store_objs[attr_stack[i].saved_store_data],
         mutations |-> mutation_objs[attr_stack[i].mutations],
         mutation_candidate |-> attr_stack[i].mutation_candidate,
         recorded_args |-> args_objs[attr_stack[i].recorded_args],
         active_scope |-> attr_stack[i].active_scope,
         original_active_scope |-> attr_stack[i].original_active_scope]]

\* C16: no hook call, push, pop or reset removes an entry from the
\* namespace registry or the alias index or maps a registered identity to
\* another scope, and the cells of a registered scope stay; a reset empties
\* the loaded set, the store list, the mutation set and the candidate and
\* leaves the registries, the snapshot stack, the recorded arguments and
\* the original scope as they are.
C16_RegistriesAppendOnly ==
    [][/\ \A k \in DOMAIN namespaces :
              k \in DOMAIN namespaces' /\ namespaces'[k] = namespaces[k]
       /\ \A k \in DOMAIN aliases :
              k \in DOMAIN aliases' /\ aliases[k] \subseteq aliases'[k]
       /\ \A r \in DOMAIN scopes :
              /\ r \in DOMAIN scopes'
              /\ \A n \in DOMAIN scopes[r].cells :
                     /\ n \in DOMAIN scopes'[r].cells
                     /\ scopes'[r].cells[n] = scopes[r].cells[n]
       /\ last'.op = "reset" =>
              /\ loaded_data_cells' = {}
              /\ store_objs'[saved_store_data'] = << >>
              /\ mutation_objs'[mutations'] = {}
              /\ mutation_candidate' = NoCandidate
              /\ registry_vars' = registry_vars
              /\ SnapshotContents' = SnapshotContents
              /\ args_objs'[recorded_args'] = args_objs[recorded_args]
              /\ original_active_scope' = original_active_scope]_vars

\* a reset inside a called frame, with a scope registered for the object,
\* a cell in the alias index and a store buffered in the caller's snapshot
C16_Witness ==
    /\ last.op = "reset"
    /\ "a" \in DOMAIN namespaces
    /\ \E k \in DOMAIN aliases : aliases[k] # {}
    /\ Len(attr_stack) = 1
    /\ store_objs[attr_stack[1].saved_store_data] # << >>
    /\ loaded_data_cells = {}

\* the line events C17 is about: the previous event was neither a call nor
\* an exception, and the previous statement of the current frame exists, is
\* unfinished and is no class header
LineAfterUnfinishedStatement ==
    /\ last'.op = "event"
    /\ last'.ev = "line"
    /\ prev_event \notin {"call", "exception"}
    /\ prev_trace_stmt_in_cur_frame # None
    /\ ~finished[prev_trace_stmt_in_cur_frame]
    /\ StmtNode(prev_trace_stmt_in_cur_frame) # "ClassDef"

\* C17 as stated: such a line event marks the previous statement of the
\* frame finished, whichever statement the event resolves to, that same
\* statement included.
C17_LineFinishesPrevious ==
    [][LineAfterUnfinishedStatement =>
           finished'[prev_trace_stmt_in_cur_frame]]_vars

\* C17 as amended: such a line event marks the previous statement of the
\* frame finished exactly when the event resolves to another statement; a
\* line event on that same statement again leaves it unfinished.
C17_LineOnAnotherStatementFinishesPrevious ==
    [][LineAfterUnfinishedStatement =>
           (finished'[prev_trace_stmt_in_cur_frame]
                <=> last'.stmt # prev_trace_stmt_in_cur_frame)]_vars

\* the second of two line events, on another statement than the first,
\* which it has marked finished
C17_Witness ==
    /\ last.op = "event"
    /\ last.ev = "line"
    /\ last.pe = "line"
    /\ hist.events = 2
    /\ \E s \in Stmts : s # last.stmt /\ StmtNode(s) # "ClassDef" /\ finished[s]

\* the class headers this step marks finished
NewlyFinishedClassHeaders ==
    {s \in Stmts : StmtNode(s) = "ClassDef" /\ ~finished[s] /\ finished'[s]}

\* the scopes of the frames on the call stack, the current one included
FrameScopes ==
    {original_active_scope} \cup
    {attr_stack[i].original_active_scope : i \in DOMAIN attr_stack}

\* a class body's frame is being executed, or has called further frames
ClassBodyExecuting ==
    \E s \in Stmts :
        StmtNode(s) = "ClassDef" /\ GetPostCallScope(s, None) \in FrameScopes

\* the event before this step was the return that left a class body's frame
AfterReturnFromClassBody ==
    /\ last.op = "event"
    /\ last.ev = "return"
    /\ last.exc = "none"
    /\ \E s \in Stmts :
          /\ StmtNode(s) = "ClassDef"
          /\ last.info.dropped.original_active_scope = GetPostCallScope(s, None)

\* C18: a line event marks a class header finished only right after the
\* return that left the class body's frame, and no event the hook processes
\* to completion marks a class header finished and leaves a class body's
\* frame on the call stack.
C18_ClassHeaderFinishedAfterBody ==
    [][(NewlyFinishedClassHeaders # {} /\ fatal' = "none") =>
           /\ ~ClassBodyExecuting'
           /\ last'.ev = "line" => AfterReturnFromClassBody]_vars

\* C19: a call event the hook processes pushes the pair (previous
\* statement of the calling frame, lambda flag), clears the previous
\* statement of the current frame and sets the lambda flag exactly when the
\* entered statement is no function, async function or class definition;
\* the matching return, when the hook processes it to completion, leaves
\* the lambda flag and the previous statement of the current frame at the
\* values they had just before that call, whatever events (exceptions
\* included) came in between.
C19_CallReturnNesting ==
    [][(last'.op = "event" /\ fatal' = "none") =>
           /\ last'.ev = "call" =>
                  /\ stack' = Append(stack, <<prev_trace_stmt_in_cur_frame,
                                              inside_lambda>>)
                  /\ prev_trace_stmt_in_cur_frame' = None
                  /\ inside_lambda' =
                         (StmtNode(last'.stmt) \notin
                              {"FunctionDef", "AsyncFunctionDef", "ClassDef"})
           /\ last'.ev = "return" =>
                  /\ inside_lambda' = callers[Len(callers)].inside_lambda
                  /\ prev_trace_stmt_in_cur_frame' = callers[Len(callers)].stmt]_vars

\* the return from a function called inside a lambda's frame: the lambda
\* flag is true again, and the previous statement is the calling one
C19_Witness ==
    /\ last.op = "event"
    /\ last.ev = "return"
    /\ fatal = "none"
    /\ Len(stack) = 1
    /\ inside_lambda
    /\ StmtNode(last.stmt) = "Return"
    /\ prev_trace_stmt_in_cur_frame # None

\* the return after an exception in the called frame
C19_WitnessAfterException ==
    /\ last.op = "event"
    /\ last.ev = "return"
    /\ last.pe = "exception"
    /\ fatal = "none"
    /\ prev_trace_stmt_in_cur_frame # None

(***************************************************************************)
(* More claims about the rewriting pass.                                   *)
(***************************************************************************)
\* a parsed expression that is a chain of loads: attribute and subscript
\* links and method calls on a name
RECURSIVE IsLoadChain(_)
IsLoadChain(e) ==
    CASE e.type = "Attribute" -> e.value.type = "Name" \/ IsLoadChain(e.value)
      [] e.type = "Subscript" ->
             /\ e.slice.type = "Index"
             /\ e.value.type = "Name" \/ IsLoadChain(e.value)
      [] e.type = "Call" -> e.func.type = "Attribute" /\ IsLoadChain(e.func)
      [] OTHER -> FALSE

\* the links of a chain
RECURSIVE Links(_)
Links(e) ==
    CASE e.type \in {"Attribute", "Subscript"} -> 1 + Links(e.value)
      [] e.type = "Call" -> Links(e.func)
      [] OTHER -> 0

IsEndCall(node) ==
    /\ node.type = "Call"
    /\ node.func = Name(end_tracer, "Load")

\* the calls of the end hook and of the begin hook along the spine of a
\* rewritten chain (the arguments of its method calls and its index
\* expressions are not on the spine)
RECURSIVE SpineEndCalls(_), SpineBeginCalls(_)
SpineEndCalls(node) ==
    IF IsEndCall(node) THEN 1 + SpineEndCalls(node.args[1])
    ELSE IF IsBeginCall(node) THEN SpineEndCalls(node.args[1])
    ELSE CASE node.type \in {"Attribute", "Subscript"} ->
                  SpineEndCalls(node.value)
           [] node.type = "Call" -> SpineEndCalls(node.func)
           [] OTHER -> 0

SpineBeginCalls(node) ==
    IF IsEndCall(node) THEN SpineBeginCalls(node.args[1])
    ELSE IF IsBeginCall(node) THEN 1 + SpineBeginCalls(node.args[1])
    ELSE CASE node.type \in {"Attribute", "Subscript"} ->
                  SpineBeginCalls(node.value)
           [] node.type = "Call" -> SpineBeginCalls(node.func)
           [] OTHER -> 0

\* C20: a statement that is a chain of loads is rewritten to one call of
\* the end hook around the whole chain, with no other end-hook call and one
\* begin-hook call per link on the chain's spine.
C20_OneEndHookPerChain ==
    (/\ rw_phase = "rewritten"
     /\ rw_input.type = "Expr"
     /\ IsLoadChain(rw_input.value))
    => /\ IsEndCall(rw_tree.value)
       /\ SpineEndCalls(rw_tree.value) = 1
       /\ SpineBeginCalls(rw_tree.value) = Links(rw_input.value)

(***************************************************************************)
(* SpecCalls: the hook calls the rewritten method calls of a statement     *)
(* make while they are evaluated.  visit_Call (lines 223-250) rewrites     *)
(*   t.m(x, u.n(y))  into                                                  *)
(*   end(begin(t, "m", ..).m(record(x, "x"), end(begin(u, "n", ..).n(      *)
(*       record(y, "y")))))                                                *)
(* and  t.m(x).n(y)  into                                                  *)
(*   end(begin(begin(t, "m", ..).m(record(x, "x")), "n", ..).n(            *)
(*       record(y, "y")))                                                  *)
(* so that the begin hook of a call runs before its arguments are          *)
(* evaluated left to right, a call in the arguments runs its own begin and *)
(* end hooks in between, and a call on the value of a call runs one end    *)
(* hook for the two of them.  The methods themselves are not traced: they  *)
(* deliver no event.                                                       *)
(***************************************************************************)
\* calls open at once
MaxOpenCalls == 2
\* hook calls made by the method calls of one run
MaxCallHooks == 5

\* the names the arguments of the method calls are written with
CallArgNames == {"p", "q"}

\* what a method call returns
MethodResults == Objs \cup {None}

\* the call made on the value of func: the begin hook as visit_Call and
\* visit_Attribute_or_Subscript emit it for the callee of a call (a load, in
\* call position, setting the active scope)
CalleeBegin(obj, key) ==
    \E scope_name \in ScopeNames(obj, FALSE) :
        AttrsubTracer(obj, key, FALSE, "Load", TRUE, TRUE, scope_name, None)

\* a method call starts, at the top of the statement or in the arguments
\* of the innermost open call: its callee is evaluated
MethodCallBegin ==
    /\ HookCallUpTo(MaxCallHooks)
    /\ Len(open_calls) < MaxOpenCalls
    /\ \E obj \in Objs, key \in Keys :
          /\ CalleeBegin(obj, key)
          /\ open_calls' = Append(open_calls, [target |-> obj, names |-> {}])

\* the next argument of the innermost open call is a bare name
MethodCallArgument ==
    /\ HookCallUpTo(MaxCallHooks)
    /\ open_calls # << >>
    /\ \E obj \in Objs, name \in CallArgNames :
          /\ ArgRecorder(obj, name)
          /\ open_calls' = [open_calls EXCEPT ![Len(open_calls)].names =
                                @ \cup {name}]

\* the innermost open call returns an object and a method of that object is
\* called in the same chain: no end hook in between
MethodCallChain ==
    /\ HookCallUpTo(MaxCallHooks)
    /\ open_calls # << >>
    /\ \E obj \in Objs, key \in Keys :
          /\ CalleeBegin(obj, key)
          /\ open_calls' = [open_calls EXCEPT ![Len(open_calls)] =
                                [target |-> obj, names |-> {}]]

\* the innermost open call returns and its value goes through the end hook
MethodCallEnd ==
    /\ HookCallUpTo(MaxCallHooks)
    /\ open_calls # << >>
    /\ \E obj \in MethodResults, args \in Orderings(args_objs[recorded_args]) :
          ExprTracer(obj, args)
    /\ open_calls' = SubSeq(open_calls, 1, Len(open_calls) - 1)

\* the innermost open call raises and the statement is left: no hook runs
\* for the calls that were open, and the code that follows (the handler of
\* a try statement, or the next cell) meets the runtime as it is
MethodCallRaise ==
    /\ fatal = "none"
    /\ open_calls # << >>
    /\ open_calls' = << >>
    /\ last' = Op("raise", None, None, None, None, "none", None, None)
    /\ UNCHANGED <<ts_vars, stmt_vars, attr_vars, fatal, hist, shadow, callers,
                   hook_calls, inserter_vars, rewriter_vars, extractor_vars>>

\* between statements the statement finaliser resets the per-statement state
StatementReset ==
    /\ open_calls = << >>
    /\ ResetCall

NextCalls ==
    \/ MethodCallBegin
    \/ MethodCallArgument
    \/ MethodCallChain
    \/ MethodCallEnd
    \/ MethodCallRaise
    \/ StatementReset

SpecCalls == Init /\ [][NextCalls]_vars

(***************************************************************************)
(* C21.  When the end hook confirms an in-place mutation, the record it    *)
(* adds names the target of the call that just returned and exactly the    *)
(* names recorded for the arguments of that call: no name recorded for an  *)
(* enclosing call, for a call in the arguments or for an earlier call is   *)
(* in it.                                                                  *)
(***************************************************************************)
\* the mutation records the step adds to the frame's mutation set
ConfirmedMutations == mutation_objs'[mutations'] \ mutation_objs[mutations]

\* the names in a mutation record
RecordNames(rec) == {rec[2][i] : i \in DOMAIN rec[2]}

\* C21: every mutation record an end hook adds holds the target and the
\* argument names of the call it ends, and no other name
C21_MutationNamesAreTheCallsOwn ==
    [][(last'.op = "end" /\ open_calls # << >>) =>
          \A rec \in ConfirmedMutations :
             /\ rec[1] = open_calls[Len(open_calls)].target
             /\ RecordNames(rec) = open_calls[Len(open_calls)].names]_vars

(***************************************************************************)
(* C22.  After the return that matches a call, the state machine's         *)
(* current frame scope is the scope that was current just before the call, *)
(* and it is the runtime's original scope of the resumed frame; also when  *)
(* the call came between a begin hook that made an object's namespace      *)
(* scope the active scope and the end hook of that chain.                  *)
(***************************************************************************)
\* a return event, processed to completion, of a frame whose call was seen
ReturnToCaller ==
    /\ last'.op = "event"
    /\ last'.ev = "return"
    /\ fatal' = "none"
    /\ callers # << >>

=============================================================================
